---- MODULE Spec2Model ----
(***************************************************************************)
(* A model of datetime.py: the proleptic Gregorian calendar functions, the *)
(* tmxxx field normaliser, and the TimeDelta, Date, Time and DateTime      *)
(* classes.                                                                *)
(*                                                                         *)
(* A Python object is a record of the attributes that have been assigned   *)
(* to it, under their mangled names (self.__year inside class Date is the  *)
(* attribute _Date__year).  Reading an attribute that was never assigned   *)
(* raises AttributeError.  A call either returns a value, Ok(v), or raises *)
(* an exception, Raise(e).                                                 *)
(***************************************************************************)
EXTENDS Integers, Sequences, FiniteSets, TLC

VARIABLES
    ordinal,    \* an integer day number handed to the ordinal functions
    date,       \* a Date object
    args,       \* the integer arguments handed to a constructor or to tmxxx
    lhs,        \* the left operand (the receiver) of a binary operation
    rhs,        \* its right operand
    result      \* the last call: its name, its argument, what it returned or raised

vars == <<ordinal, date, args, lhs, rhs, result>>

inputs == <<ordinal, date, args, lhs, rhs>>

\* ------------------------------------------------------------------ bounds

\* Years are drawn from windows of this half-width around the ends of the
\* 4-, 100- and 400-year cycles and the ends of the supported range.
YearSpan == 2

\* Ordinals are drawn from windows of this half-width around the ends of the
\* 100- and 400-year cycles and the ends of the supported range.
OrdSpan == 400

\* Day counts added to or subtracted from a date reach this far.
MaxDayShift == 3

\* ------------------------------------------------------------ Python values

Ok(v) == [exc |-> "none", val |-> v]

Raise(e) == [exc |-> e]

IsOk(r) == r.exc = "none"

None == [type |-> "NoneType"]

HasAttr(obj, name) == name \in DOMAIN obj

Bool2Int(b) == IF b THEN 1 ELSE 0

\* cmp() of two integer tuples of the same length.
RECURSIVE cmp(_, _)
cmp(a, b) ==
    IF a = <<>> THEN 0
    ELSE IF Head(a) < Head(b) THEN -1
    ELSE IF Head(a) > Head(b) THEN 1
    ELSE cmp(Tail(a), Tail(b))

\* ------------------------------------------------------------ calendar math

MINYEAR == 1

MAXYEAR == 9999

_DAYS_IN_MONTH == <<31, 28, 31, 30, 31, 30, 31, 31, 30, 31, 30, 31>>

_DAYS_BEFORE_MONTH[m \in 1..12] ==
    IF m = 1 THEN 0 ELSE _DAYS_BEFORE_MONTH[m - 1] + _DAYS_IN_MONTH[m - 1]

_is_leap(year) == year % 4 = 0 /\ (year % 100 # 0 \/ year % 400 = 0)

_days_in_year(year) == 365 + Bool2Int(_is_leap(year))

_days_before_year(year) ==
    LET y == year - 1
    IN  y * 365 + (y \div 4) - (y \div 100) + (y \div 400)

\* Called only with 1 <= month <= 12 (the assert of line 64).
_days_in_month(year, month) ==
    IF month = 2 /\ _is_leap(year) THEN 29 ELSE _DAYS_IN_MONTH[month]

_days_before_month(year, month) ==
    IF ~(1 <= month /\ month <= 12) THEN Raise("ValueError")
    ELSE Ok(_DAYS_BEFORE_MONTH[month] + Bool2Int(month > 2 /\ _is_leap(year)))

_ymd2ord(year, month, day) ==
    IF ~(1 <= month /\ month <= 12) THEN Raise("ValueError")
    ELSE LET dim == _days_in_month(year, month)
         IN  IF ~(1 <= day /\ day <= dim) THEN Raise("ValueError")
             ELSE Ok(_days_before_year(year)
                     + _days_before_month(year, month).val
                     + day)

_DI400Y == _days_before_year(401)

_DI100Y == _days_before_year(101)

_DI4Y == _days_before_year(5)

\* The month estimate taken as exact: the correction of an estimate one too
\* large is left out.
_ord2ymd_month_uncorrected(n, leapyear) ==
    LET month     == (n + 50) \div 32
        preceding == _DAYS_BEFORE_MONTH[month] + Bool2Int(month > 2 /\ leapyear)
    IN  [month |-> month, preceding |-> preceding, corrected |-> FALSE]

\* The month estimate of _ord2ymd and its correction: n is the offset from
\* January 1 of a year whose leap flag is leapyear.
_ord2ymd_month(n, leapyear) ==
    LET month     == (n + 50) \div 32
        preceding == _DAYS_BEFORE_MONTH[month] + Bool2Int(month > 2 /\ leapyear)
    IN  IF preceding > n
        THEN [month     |-> month - 1,
              preceding |-> preceding - (_DAYS_IN_MONTH[month - 1]
                                         + Bool2Int(month - 1 = 2 /\ leapyear)),
              corrected |-> TRUE]
        ELSE [month |-> month, preceding |-> preceding, corrected |-> FALSE]

\* The divmod chain of _ord2ymd: the counts of whole 400-, 100-, 4- and 1-year
\* cycles before day n, the offset n left over, and the year they add up to.
_ord2ymd_divmod(n) ==
    LET n0   == n - 1
        n400 == n0 \div _DI400Y
        r400 == n0 % _DI400Y
        n100 == r400 \div _DI100Y
        r100 == r400 % _DI100Y
        n4   == r100 \div _DI4Y
        r4   == r100 % _DI4Y
        n1   == r4 \div 365
    IN  [n400 |-> n400, n100 |-> n100, n4 |-> n4, n1 |-> n1, n |-> r4 % 365,
         year |-> n400 * 400 + 1 + n100 * 100 + n4 * 4 + n1]

\* _ord2ymd after its divmod chain, c what the chain left.
_ord2ymd_date(c, leapyear, est) ==
    IF c.n1 = 4 \/ c.n100 = 4
    THEN IF c.n # 0 THEN Raise("AssertionError")
         ELSE Ok(<<c.year - 1, 12, 31>>)
    ELSE IF leapyear # _is_leap(c.year) THEN Raise("AssertionError")
    ELSE IF ~(0 <= c.n - est.preceding
              /\ c.n - est.preceding < _days_in_month(c.year, est.month))
    THEN Raise("AssertionError")
    ELSE Ok(<<c.year, est.month, c.n - est.preceding + 1>>)

\* The leap flag that _ord2ymd makes of the counts.
_ord2ymd_leapyear(c) == c.n1 = 3 /\ (c.n4 # 24 \/ c.n100 = 3)

_ord2ymd_estimate(c) ==
    _ord2ymd_date(c, _ord2ymd_leapyear(c),
                  IF c.n1 = 4 \/ c.n100 = 4 THEN None
                  ELSE _ord2ymd_month(c.n, _ord2ymd_leapyear(c)))

_ord2ymd(n) == _ord2ymd_estimate(_ord2ymd_divmod(n))

\* ------------------------------------------------------------------ tmxxx

\* The day after the last of a month without the carry into the year: the
\* day after December 31 is left as the first of month 13.
_tmxxx_day_shortcut_fwd_nowrap(year, month) == <<year, month + 1, 1>>

\* tmxxx(year, month, day, hour, minute, second, microsecond).  The class
\* attribute ordinal is None (written <<>>) until the fallback path or
\* toordinal() caches a day number n (written <<n>>).
_tmxxx_day_shortcut_fwd(year, month) ==
    IF month + 1 > 12 THEN <<year + 1, 1, 1>> ELSE <<year, month + 1, 1>>

tmxxx(year, month, day, hour, minute, second, microsecond) ==
    LET usOut  == ~(0 <= microsecond /\ microsecond <= 999999)
        us1    == IF usOut THEN microsecond % 1000000 ELSE microsecond
        s0     == IF usOut THEN second + (microsecond \div 1000000) ELSE second
        sOut   == ~(0 <= s0 /\ s0 <= 59)
        s1     == IF sOut THEN s0 % 60 ELSE s0
        mi0    == IF sOut THEN minute + (s0 \div 60) ELSE minute
        miOut  == ~(0 <= mi0 /\ mi0 <= 59)
        mi1    == IF miOut THEN mi0 % 60 ELSE mi0
        h0     == IF miOut THEN hour + (mi0 \div 60) ELSE hour
        hOut   == ~(0 <= h0 /\ h0 <= 23)
        h1     == IF hOut THEN h0 % 24 ELSE h0
        d0     == IF hOut THEN day + (h0 \div 24) ELSE day
        mOut   == ~(1 <= month /\ month <= 12)
        y1     == IF mOut THEN year + ((month - 1) \div 12) ELSE year
        m1     == IF mOut THEN ((month - 1) % 12) + 1 ELSE month
        dim    == _days_in_month(y1, m1)
        Obj(ymd, ord) ==
            Ok([type |-> "tmxxx", year |-> ymd[1], month |-> ymd[2], day |-> ymd[3],
                hour |-> h1, minute |-> mi1, second |-> s1, microsecond |-> us1,
                ordinal |-> ord])
    IN  IF 1 <= d0 /\ d0 <= dim THEN Obj(<<y1, m1, d0>>, <<>>)
        ELSE IF d0 = 0
        THEN IF m1 - 1 > 0
             THEN Obj(<<y1, m1 - 1, _days_in_month(y1, m1 - 1)>>, <<>>)
             ELSE Obj(<<y1 - 1, 12, 31>>, <<>>)
        ELSE IF d0 = dim + 1
        THEN Obj(_tmxxx_day_shortcut_fwd(y1, m1), <<>>)
        ELSE LET o   == _ymd2ord(y1, m1, 1).val + (d0 - 1)
                 ymd == _ord2ymd(o)
             IN  IF ~IsOk(ymd) THEN ymd ELSE Obj(ymd.val, <<o>>)

\* -------------------------------------------------------------- TimeDelta

\* divmod() of a Decimal by a positive integer: the quotient is truncated
\* towards zero and the remainder takes the sign of the dividend.
DecimalDivmod(a, b) ==
    LET q == IF a >= 0 THEN a \div b ELSE -((-a) \div b)
    IN  <<q, a - q * b>>

MaxTimeDeltaDays == 999999999

\* TimeDelta(days, seconds, minutes, hours, weeks) with integer arguments.
\* The object gets the attributes __days and __seconds; no statement assigns
\* __microseconds.
TimeDelta_new(days, seconds, minutes, hours, weeks) ==
    LET d0       == days + weeks * 7
        seconds0 == seconds + minutes * 60 + hours * 3600
        s0       == 0
        qr1      == DecimalDivmod(seconds0, 24 * 3600)
        d1       == d0 + qr1[1]
        qr2      == DecimalDivmod(s0, 24 * 3600)
        d        == d1 + qr2[1]
        s        == qr2[2]
    IN  IF ~(0 <= s /\ s < 24 * 3600) THEN Raise("AssertionError")
        ELSE IF (IF d < 0 THEN -d ELSE d) > MaxTimeDeltaDays
        THEN Raise("OverflowError")
        ELSE Ok([type |-> "TimeDelta", _TimeDelta__days |-> d,
                 _TimeDelta__seconds |-> s])

\* A Python int as an operand.
PyInt(k) == [type |-> "int", val |-> k]

PyBool(b) == [type |-> "bool", val |-> b]

NotImplemented == [type |-> "NotImplementedType"]

\* A read of the attribute name of obj.
GetAttr(obj, name) ==
    IF HasAttr(obj, name) THEN Ok(obj[name]) ELSE Raise("AttributeError")

TimeDelta_days(self) == GetAttr(self, "_TimeDelta__days")

TimeDelta_seconds(self) == GetAttr(self, "_TimeDelta__seconds")

TimeDelta_microseconds(self) == GetAttr(self, "_TimeDelta__microseconds")

TimeDelta___neg__(self) ==
    IF ~IsOk(TimeDelta_microseconds(self)) THEN TimeDelta_microseconds(self)
    ELSE TimeDelta_new(-self._TimeDelta__days, -self._TimeDelta__seconds,
                       -self._TimeDelta__microseconds, 0, 0)

TimeDelta___add__(self, other) ==
    IF other.type # "TimeDelta" THEN Ok(NotImplemented)
    ELSE IF ~IsOk(TimeDelta_microseconds(self)) THEN TimeDelta_microseconds(self)
    ELSE IF ~IsOk(TimeDelta_microseconds(other)) THEN TimeDelta_microseconds(other)
    ELSE TimeDelta_new(self._TimeDelta__days + other._TimeDelta__days,
                       self._TimeDelta__seconds + other._TimeDelta__seconds,
                       self._TimeDelta__microseconds
                           + other._TimeDelta__microseconds, 0, 0)

TimeDelta___sub__(self, other) ==
    IF other.type # "TimeDelta" THEN Ok(NotImplemented)
    ELSE LET neg == TimeDelta___neg__(other)
         IN  IF ~IsOk(neg) THEN neg ELSE TimeDelta___add__(self, neg.val)

TimeDelta___abs__(self) ==
    IF self._TimeDelta__days < 0 THEN TimeDelta___neg__(self) ELSE Ok(self)

TimeDelta___mul__(self, other) ==
    IF other.type # "int" THEN Ok(NotImplemented)
    ELSE IF ~IsOk(TimeDelta_microseconds(self)) THEN TimeDelta_microseconds(self)
    ELSE TimeDelta_new(self._TimeDelta__days * other.val,
                       self._TimeDelta__seconds * other.val,
                       self._TimeDelta__microseconds * other.val, 0, 0)

TimeDelta___div__(self, other) ==
    IF other.type # "int" THEN Ok(NotImplemented)
    ELSE IF ~IsOk(TimeDelta_microseconds(self)) THEN TimeDelta_microseconds(self)
    ELSE IF other.val = 0 THEN Raise("ZeroDivisionError")
    ELSE LET usec == (self._TimeDelta__days * (24 * 3600)
                      + self._TimeDelta__seconds) * 1000000
                     + self._TimeDelta__microseconds
         IN  TimeDelta_new(0, 0, usec \div other.val, 0, 0)

TimeDelta___getstate(self) ==
    IF ~IsOk(TimeDelta_microseconds(self)) THEN TimeDelta_microseconds(self)
    ELSE Ok(<<self._TimeDelta__days, self._TimeDelta__seconds,
              self._TimeDelta__microseconds>>)

TimeDelta___cmp(self, other) ==
    LET a == TimeDelta___getstate(self)
        b == TimeDelta___getstate(other)
    IN  IF ~IsOk(a) THEN a
        ELSE IF ~IsOk(b) THEN b
        ELSE Ok(cmp(a.val, b.val))

TimeDelta___eq__(self, other) ==
    IF other.type = "TimeDelta"
    THEN LET c == TimeDelta___cmp(self, other)
         IN  IF ~IsOk(c) THEN c ELSE Ok(PyBool(c.val = 0))
    ELSE Ok(PyBool(FALSE))

TimeDelta___ne__(self, other) ==
    IF other.type = "TimeDelta"
    THEN LET c == TimeDelta___cmp(self, other)
         IN  IF ~IsOk(c) THEN c ELSE Ok(PyBool(c.val # 0))
    ELSE Ok(PyBool(TRUE))

\* bool(self): "or" stops at the first operand that is true.
TimeDelta___nonzero__(self) ==
    IF self._TimeDelta__days # 0 THEN Ok(PyBool(TRUE))
    ELSE IF self._TimeDelta__seconds # 0 THEN Ok(PyBool(TRUE))
    ELSE IF ~IsOk(TimeDelta_microseconds(self)) THEN TimeDelta_microseconds(self)
    ELSE Ok(PyBool(TimeDelta_microseconds(self).val # 0))

\* ------------------------------------------------------------------- Date

\* _check_Date_fields with the day tested against 31 whatever the month.
_check_Date_fields_day31(year, month, day) ==
    IF ~(MINYEAR <= year /\ year <= MAXYEAR) THEN Raise("ValueError")
    ELSE IF ~(1 <= month /\ month <= 12) THEN Raise("ValueError")
    ELSE IF ~(1 <= day /\ day <= 31) THEN Raise("ValueError")
    ELSE Ok(None)

_check_Date_fields(year, month, day) ==
    IF ~(MINYEAR <= year /\ year <= MAXYEAR) THEN Raise("ValueError")
    ELSE IF ~(1 <= month /\ month <= 12) THEN Raise("ValueError")
    ELSE IF ~(1 <= day /\ day <= _days_in_month(year, month)) THEN Raise("ValueError")
    ELSE Ok(None)

\* Date(year, month, day) with integer arguments.
Date_new(year, month, day) ==
    IF ~IsOk(_check_Date_fields(year, month, day))
    THEN _check_Date_fields(year, month, day)
    ELSE Ok([type |-> "Date", _Date__year |-> year, _Date__month |-> month,
             _Date__day |-> day])

\* Date(string): the pickle support of the constructor.  string is a str, given
\* as the tuple of its character codes.
Date___setstate(string) ==
    IF Len(string) # 4 \/ ~(1 <= string[3] /\ string[3] <= 12)
    THEN Raise("TypeError")
    ELSE Ok([type |-> "Date", _Date__year |-> string[1] * 256 + string[2],
             _Date__month |-> string[3], _Date__day |-> string[4]])

Date_new_state(string) == Date___setstate(string)

\* self.__getstate(): a tuple of the four bytes of the fields.
Date___getstate(self) ==
    Ok(<< <<self._Date__year \div 256, self._Date__year % 256,
            self._Date__month, self._Date__day>> >>)

\* self.__reduce__(): the arguments that the class is called with to build
\* the object again.
Date___reduce__(self) == Date___getstate(self)

\* replace(): an argument is None or PyInt(k).
Date_replace(self, year, month, day) ==
    LET y == IF year = None THEN self._Date__year ELSE year.val
        m == IF month = None THEN self._Date__month ELSE month.val
        d == IF day = None THEN self._Date__day ELSE day.val
    IN  IF ~IsOk(_check_Date_fields(y, m, d)) THEN _check_Date_fields(y, m, d)
        ELSE Date_new(y, m, d)

Date_toordinal(self) ==
    _ymd2ord(self._Date__year, self._Date__month, self._Date__day)

Date_fromordinal(n) ==
    LET ymd == _ord2ymd(n)
    IN  IF ~IsOk(ymd) THEN ymd
        ELSE Date_new(ymd.val[1], ymd.val[2], ymd.val[3])

Date_weekday(self) ==
    LET o == Date_toordinal(self)
    IN  IF ~IsOk(o) THEN o ELSE Ok((o.val + 6) % 7)

\* isoweekday() without the "or 7": a Sunday comes out as 0.
Date_isoweekday_mod7(self) ==
    LET o == Date_toordinal(self)
    IN  IF ~IsOk(o) THEN o ELSE Ok(o.val % 7)

Date_isoweekday(self) ==
    LET o == Date_toordinal(self)
    IN  IF ~IsOk(o) THEN o
        ELSE Ok(IF o.val % 7 = 0 THEN 7 ELSE o.val % 7)

Date__checkOverflow(year) ==
    IF ~(MINYEAR <= year /\ year <= MAXYEAR) THEN Raise("OverflowError")
    ELSE Ok(None)

\* Date.__add__ without the call of _checkOverflow.
Date___add___unchecked(self, other) ==
    IF other.type # "TimeDelta" THEN Raise("TypeError")
    ELSE LET t == tmxxx(self._Date__year, self._Date__month,
                        self._Date__day + TimeDelta_days(other).val, 0, 0, 0, 0)
         IN  IF ~IsOk(t) THEN t
             ELSE Date_new(t.val.year, t.val.month, t.val.day)

Date___add__(self, other) ==
    IF other.type # "TimeDelta" THEN Raise("TypeError")
    ELSE LET t == tmxxx(self._Date__year, self._Date__month,
                        self._Date__day + TimeDelta_days(other).val, 0, 0, 0, 0)
         IN  IF ~IsOk(t) THEN t
             ELSE IF ~IsOk(Date__checkOverflow(t.val.year))
             THEN Date__checkOverflow(t.val.year)
             ELSE Date_new(t.val.year, t.val.month, t.val.day)

Date___sub__(self, other) ==
    IF other.type = "TimeDelta"
    THEN LET neg == TimeDelta_new(-TimeDelta_days(other).val, 0, 0, 0, 0)
         IN  IF ~IsOk(neg) THEN neg ELSE Date___add__(self, neg.val)
    ELSE IF other.type \in {"Date", "DateTime"}
    THEN LET days1 == Date_toordinal(self)
             days2 == Date_toordinal(other)
         IN  IF ~IsOk(days1) THEN days1
             ELSE IF ~IsOk(days2) THEN days2
             ELSE TimeDelta_new(days1.val - days2.val, 0, 0, 0, 0)
    ELSE Ok(NotImplemented)

\* _isoweek1monday with the comparison off by one: a year that starts on a
\* Thursday has its week 1 moved a week on.
_isoweek1monday_ge(year) ==
    LET THURSDAY     == 3
        firstday     == _ymd2ord(year, 1, 1).val
        firstweekday == (firstday + 6) % 7
        week1monday  == firstday - firstweekday
    IN  IF firstweekday >= THURSDAY THEN week1monday + 7 ELSE week1monday

_isoweek1monday(year) ==
    LET THURSDAY     == 3
        firstday     == _ymd2ord(year, 1, 1).val
        firstweekday == (firstday + 6) % 7
        week1monday  == firstday - firstweekday
    IN  IF firstweekday > THURSDAY THEN week1monday + 7 ELSE week1monday

Date_isocalendar(self) ==
    LET year        == self._Date__year
        week1monday == _isoweek1monday(year)
        today       == _ymd2ord(self._Date__year, self._Date__month, self._Date__day)
    IN  IF ~IsOk(today) THEN today
        ELSE LET week == (today.val - week1monday) \div 7
                 day  == (today.val - week1monday) % 7
             IN  IF week < 0
                 THEN LET w1m == _isoweek1monday(year - 1)
                      IN  Ok(<<year - 1, ((today.val - w1m) \div 7) + 1,
                               ((today.val - w1m) % 7) + 1>>)
                 ELSE IF week >= 52 /\ today.val >= _isoweek1monday(year + 1)
                 THEN Ok(<<year + 1, 1, day + 1>>)
                 ELSE Ok(<<year, week + 1, day + 1>>)

\* The result of a comparison method from the sign c that __cmp returned.
CmpTest(opname, c) ==
    CASE opname = "__eq__" -> c = 0
      [] opname = "__ne__" -> c # 0
      [] opname = "__le__" -> c <= 0
      [] opname = "__lt__" -> c < 0
      [] opname = "__ge__" -> c >= 0
      [] opname = "__gt__" -> c > 0

IsInstanceDate(obj) == obj.type \in {"Date", "DateTime"}

\* hasattr(obj, "Timetuple"): Date defines it and DateTime overrides it.
HasTimetuple(obj) == obj.type \in {"Date", "DateTime"}

\* What a comparison method does with an operand it cannot compare:
\* __eq__ and __ne__ answer, the ordering methods call _cmperror.
\* "return self.__cmp(other) <op> 0", c what __cmp returned or raised.
CmpResult(opname, c) ==
    IF ~IsOk(c) THEN c ELSE Ok(PyBool(CmpTest(opname, c.val)))

CmpFallback(opname) ==
    IF opname = "__eq__" THEN Ok(PyBool(FALSE))
    ELSE IF opname = "__ne__" THEN Ok(PyBool(TRUE))
    ELSE Raise("TypeError")

TimeDelta_richcmp(self, other, opname) ==
    IF other.type = "TimeDelta"
    THEN CmpResult(opname, TimeDelta___cmp(self, other))
    ELSE CmpFallback(opname)

Date___cmp(self, other) ==
    Ok(cmp(<<self._Date__year, self._Date__month, self._Date__day>>,
           <<other._Date__year, other._Date__month, other._Date__day>>))

Date_richcmp(self, other, opname) ==
    IF IsInstanceDate(other)
    THEN CmpResult(opname, Date___cmp(self, other))
    ELSE IF HasTimetuple(other) THEN Ok(NotImplemented)
    ELSE CmpFallback(opname)

\* ----------------------------------------------------------------- TzInfo

\* A zone object: a TzInfo subclass instance whose utcoffset() and dst()
\* return the same value for every argument.
TzInfo(id, utcoffset, dst) ==
    [type |-> "TzInfo", id |-> id, utcoffset |-> utcoffset, dst |-> dst]

\* A zone object with daylight time: a TzInfo subclass instance whose
\* utcoffset(dt) returns TimeDelta(minutes=std + save) and whose dst(dt)
\* returns TimeDelta(minutes=save) when the (year, month, day, hour, minute)
\* of dt are from start up to, not including, end, and TimeDelta(minutes=std)
\* and TimeDelta(0) otherwise.
TzInfoDst(id, std, save, start, end) ==
    [type |-> "TzInfo", id |-> id, rule |-> "dst", std |-> std, save |-> save,
     start |-> start, end |-> end]

\* The minutes that the method methname of such a zone makes its TimeDelta of.
TzInfoDst_minutes(tz, methname, dt) ==
    LET wall  == <<dt._DateTime__year, dt._DateTime__month, dt._DateTime__day,
                   dt._DateTime__hour, dt._DateTime__minute>>
        isdst == dt # None /\ cmp(tz.start, wall) <= 0 /\ cmp(wall, tz.end) < 0
    IN  (IF methname = "utcoffset" THEN tz.std ELSE 0)
            + (IF isdst THEN tz.save ELSE 0)

_call_TzInfo_method(tz, methname, TzInfoarg) ==
    IF tz = None THEN Ok(None)
    ELSE IF HasAttr(tz, "rule")
    THEN Ok(TimeDelta_new(0, 0, TzInfoDst_minutes(tz, methname, TzInfoarg),
                          0, 0).val)
    ELSE Ok(tz[methname])

\* The offset in minutes, as PyInt(minutes), or None.
_check_utc_offset(name, offset) ==
    IF offset = None THEN Ok(None)
    ELSE IF offset.type # "TimeDelta" THEN Raise("TypeError")
    ELSE LET days == TimeDelta_days(offset).val
         IN  IF days < -1 \/ days > 0 THEN Raise("ValueError")
             ELSE LET seconds == days * 86400 + TimeDelta_seconds(offset).val
                      qr      == DecimalDivmod(seconds, 60)
                  IN  IF qr[2] # 0 THEN Raise("ValueError")
                      ELSE IF ~IsOk(TimeDelta_microseconds(offset))
                      THEN TimeDelta_microseconds(offset)
                      ELSE IF TimeDelta_microseconds(offset).val # 0
                      THEN Raise("ValueError")
                      ELSE IF -1440 < qr[1] /\ qr[1] < 1440 THEN Ok(PyInt(qr[1]))
                      ELSE Raise("ValueError")

_check_Time_fields(hour, minute, second) ==
    IF ~(0 <= hour /\ hour <= 23) THEN Raise("ValueError")
    ELSE IF ~(0 <= minute /\ minute <= 59) THEN Raise("ValueError")
    ELSE IF ~(0 <= second /\ second <= 59) THEN Raise("ValueError")
    ELSE Ok(None)

_check_TzInfo_arg(tz) ==
    IF tz # None /\ tz.type # "TzInfo" THEN Raise("TypeError") ELSE Ok(None)

\* ------------------------------------------------------------------- Time

\* Time(hour, minute, second, tzinfo) with integer fields.  The zone is
\* stored as _tzinfo; no statement assigns __microsecond or _TzInfo.
Time_new(hour, minute, second, tzinfo) ==
    IF ~IsOk(_check_TzInfo_arg(tzinfo)) THEN _check_TzInfo_arg(tzinfo)
    ELSE IF ~IsOk(_check_Time_fields(hour, minute, second))
    THEN _check_Time_fields(hour, minute, second)
    ELSE Ok([type |-> "Time", _Time__hour |-> hour, _Time__minute |-> minute,
             _Time__second |-> second, _tzinfo |-> tzinfo])

\* Time(string, tzinfo): the pickle support of the constructor.
Time___setstate(string, tz) ==
    IF Len(string) # 6 \/ string[1] >= 24 THEN Raise("TypeError")
    ELSE Ok([type |-> "Time", _Time__hour |-> string[1],
             _Time__minute |-> string[2], _Time__second |-> string[3],
             _Time__microsecond |-> (string[4] * 256 + string[5]) * 256 + string[6],
             _TzInfo |-> tz])

Time_new_state(string, tz) == Time___setstate(string, tz)

Time__utcoffset(self) ==
    LET tz == GetAttr(self, "_TzInfo")
    IN  IF ~IsOk(tz) THEN tz
        ELSE _check_utc_offset("utcoffset",
                               _call_TzInfo_method(tz.val, "utcoffset", None).val)

Time___cmp(self, other) ==
    LET mytz  == GetAttr(self, "_TzInfo")
        ottz  == GetAttr(other, "_TzInfo")
        myoff == Time__utcoffset(self)
        otoff == Time__utcoffset(other)
        Base  ==
            IF ~IsOk(GetAttr(self, "_Time__microsecond"))
            THEN GetAttr(self, "_Time__microsecond")
            ELSE IF ~IsOk(GetAttr(other, "_Time__microsecond"))
            THEN GetAttr(other, "_Time__microsecond")
            ELSE Ok(cmp(<<self._Time__hour, self._Time__minute,
                          self._Time__second, self._Time__microsecond>>,
                        <<other._Time__hour, other._Time__minute,
                          other._Time__second, other._Time__microsecond>>))
    IN  IF ~IsOk(mytz) THEN mytz
        ELSE IF ~IsOk(ottz) THEN ottz
        ELSE IF mytz.val = ottz.val THEN Base
        ELSE IF ~IsOk(myoff) THEN myoff
        ELSE IF ~IsOk(otoff) THEN otoff
        ELSE IF myoff.val = otoff.val THEN Base
        ELSE IF myoff.val = None \/ otoff.val = None THEN Raise("TypeError")
        ELSE Ok(cmp(<<self._Time__hour * 60 + self._Time__minute - myoff.val.val,
                      self._Time__second, self._Time__microsecond>>,
                    <<other._Time__hour * 60 + other._Time__minute
                          - otoff.val.val,
                      other._Time__second, other._Time__microsecond>>))

\* self.__getstate(): the six bytes of the fields, and the zone when there is
\* one.
Time___getstate(self) ==
    IF ~IsOk(GetAttr(self, "_Time__microsecond"))
    THEN GetAttr(self, "_Time__microsecond")
    ELSE IF ~IsOk(GetAttr(self, "_TzInfo")) THEN GetAttr(self, "_TzInfo")
    ELSE LET us        == self._Time__microsecond
             basestate == <<self._Time__hour, self._Time__minute,
                            self._Time__second, (us \div 256) \div 256,
                            (us \div 256) % 256, us % 256>>
         IN  IF self._TzInfo = None THEN Ok(<<basestate>>)
             ELSE Ok(<<basestate, self._TzInfo>>)

\* hash(x) as the value it is the hash of: two hashes are equal when they
\* are hashes of equal values.
HashOf(kind, x) == [type |-> "hash", of |-> kind, val |-> x]

\* The end of Time.__hash__, for an offset that is neither 0 nor None.  The
\* Time constructor takes the fourth argument as the zone, and is handed the
\* microsecond.
Time___hash___shifted(self, hm) ==
    IF ~IsOk(GetAttr(self, "_Time__microsecond"))
    THEN GetAttr(self, "_Time__microsecond")
    ELSE IF 0 <= hm[1] /\ hm[1] < 24
    THEN Time_new(hm[1], hm[2], self._Time__second,
                  PyInt(self._Time__microsecond))
    ELSE Ok(HashOf("tuple", <<hm[1], hm[2], self._Time__second,
                              self._Time__microsecond>>))

\* Time.__hash__ from "if not tzoff", tzoff what _utcoffset returned or
\* raised and state what __getstate returns or raises.
Time___hash___offset(self, tzoff, state) ==
    IF ~IsOk(tzoff) THEN tzoff
    ELSE IF tzoff.val = None \/ tzoff.val = PyInt(0)
    THEN IF ~IsOk(state) THEN state ELSE Ok(HashOf("str", state.val[1]))
    ELSE LET total == self._Time__hour * 60 + self._Time__minute - tzoff.val.val
         IN  Time___hash___shifted(self, <<total \div 60, total % 60>>)

Time___hash__(self) ==
    Time___hash___offset(self, Time__utcoffset(self), Time___getstate(self))

Time_richcmp(self, other, opname) ==
    IF other.type = "Time"
    THEN CmpResult(opname, Time___cmp(self, other))
    ELSE CmpFallback(opname)

\* --------------------------------------------------------------- DateTime

\* DateTime(year, month, day, hour, minute, second, tzinfo) with integer
\* fields.  The zone is stored as _tzinfo; no statement assigns __microsecond
\* or _TzInfo.
DateTime_new(year, month, day, hour, minute, second, tzinfo) ==
    IF ~IsOk(_check_TzInfo_arg(tzinfo)) THEN _check_TzInfo_arg(tzinfo)
    ELSE IF ~IsOk(_check_Time_fields(hour, minute, second))
    THEN _check_Time_fields(hour, minute, second)
    ELSE IF ~IsOk(Date_new(year, month, day)) THEN Date_new(year, month, day)
    ELSE Ok([type |-> "DateTime",
             _Date__year |-> year, _Date__month |-> month, _Date__day |-> day,
             _DateTime__year |-> year, _DateTime__month |-> month,
             _DateTime__day |-> day, _DateTime__hour |-> hour,
             _DateTime__minute |-> minute, _DateTime__second |-> second,
             _tzinfo |-> tzinfo])

\* DateTime(string, tzinfo): the pickle support of the constructor.
DateTime_new_state(string, tz) ==
    LET base == Date_new_state(SubSeq(string, 1, IF Len(string) < 4
                                                  THEN Len(string) ELSE 4))
    IN  IF ~IsOk(base) THEN base
        ELSE IF Len(string) # 10 THEN Raise("ValueError")
        ELSE Ok([type |-> "DateTime",
                 _Date__year |-> base.val._Date__year,
                 _Date__month |-> base.val._Date__month,
                 _Date__day |-> base.val._Date__day,
                 _DateTime__year |-> string[1] * 256 + string[2],
                 _DateTime__month |-> string[3], _DateTime__day |-> string[4],
                 _DateTime__hour |-> string[5], _DateTime__minute |-> string[6],
                 _DateTime__second |-> string[7],
                 _DateTime__microsecond |->
                     (string[8] * 256 + string[9]) * 256 + string[10],
                 _TzInfo |-> tz])

DateTime__utcoffset(self) ==
    LET tz == GetAttr(self, "_TzInfo")
    IN  IF ~IsOk(tz) THEN tz
        ELSE _check_utc_offset("utcoffset",
                               _call_TzInfo_method(tz.val, "utcoffset", self).val)

\* The end of DateTime.__add__, from "self._checkOverflow(t.year)".  The
\* constructor is handed eight arguments, one of them by the name TzInfo; it
\* takes seven and none of that name.
DateTime___add___result(self, t) ==
    IF ~IsOk(t) THEN t
    ELSE IF ~IsOk(Date__checkOverflow(t.val.year))
    THEN Date__checkOverflow(t.val.year)
    ELSE IF ~IsOk(GetAttr(self, "_TzInfo")) THEN GetAttr(self, "_TzInfo")
    ELSE Raise("TypeError")

DateTime___add__(self, other) ==
    IF other.type # "TimeDelta" THEN Ok(NotImplemented)
    ELSE IF ~IsOk(GetAttr(self, "_DateTime__microsecond"))
    THEN GetAttr(self, "_DateTime__microsecond")
    ELSE IF ~IsOk(TimeDelta_microseconds(other)) THEN TimeDelta_microseconds(other)
    ELSE DateTime___add___result(
             self,
             tmxxx(self._DateTime__year, self._DateTime__month,
                   self._DateTime__day + TimeDelta_days(other).val,
                   self._DateTime__hour, self._DateTime__minute,
                   self._DateTime__second + TimeDelta_seconds(other).val,
                   self._DateTime__microsecond
                       + TimeDelta_microseconds(other).val))

DateTime___sub__(self, other) ==
    IF other.type # "DateTime"
    THEN IF other.type = "TimeDelta"
         THEN LET neg == TimeDelta___neg__(other)
              IN  IF ~IsOk(neg) THEN neg ELSE DateTime___add__(self, neg.val)
         ELSE Ok(NotImplemented)
    ELSE LET days1 == Date_toordinal(self)
             days2 == Date_toordinal(other)
             secs1 == self._DateTime__second + self._DateTime__minute * 60
                          + self._DateTime__hour * 3600
             secs2 == other._DateTime__second + other._DateTime__minute * 60
                          + other._DateTime__hour * 3600
             us1   == GetAttr(self, "_DateTime__microsecond")
             us2   == GetAttr(other, "_DateTime__microsecond")
             base  == TimeDelta_new(days1.val - days2.val, secs1 - secs2,
                                    us1.val - us2.val, 0, 0)
             myoff == DateTime__utcoffset(self)
             otoff == DateTime__utcoffset(other)
         IN  IF ~IsOk(days1) THEN days1
             ELSE IF ~IsOk(days2) THEN days2
             ELSE IF ~IsOk(us1) THEN us1
             ELSE IF ~IsOk(us2) THEN us2
             ELSE IF ~IsOk(base) THEN base
             ELSE IF ~IsOk(GetAttr(self, "_TzInfo")) THEN GetAttr(self, "_TzInfo")
             ELSE IF ~IsOk(GetAttr(other, "_TzInfo")) THEN GetAttr(other, "_TzInfo")
             ELSE IF self._TzInfo = other._TzInfo THEN base
             ELSE IF ~IsOk(myoff) THEN myoff
             ELSE IF ~IsOk(otoff) THEN otoff
             ELSE IF myoff.val = otoff.val THEN base
             ELSE IF myoff.val = None \/ otoff.val = None THEN Raise("TypeError")
             ELSE LET shift == TimeDelta_new(0, 0, otoff.val.val - myoff.val.val,
                                             0, 0)
                  IN  IF ~IsOk(shift) THEN shift
                      ELSE TimeDelta___add__(base.val, shift.val)

\* DateTime.combine(Date, Time): the first statement reads the global
\* _Date_class, which no statement of the module binds.
DateTime_combine(Date, Time) == Raise("NameError")

\* "if offset is not None: offset = TimeDelta(minutes=offset)" of utcoffset()
\* and dst(), offset what _check_utc_offset returned or raised.
OffsetAsTimeDelta(offset) ==
    IF ~IsOk(offset) THEN offset
    ELSE IF offset.val = None THEN Ok(None)
    ELSE TimeDelta_new(0, 0, offset.val.val, 0, 0)

DateTime_utcoffset(self) == OffsetAsTimeDelta(DateTime__utcoffset(self))

DateTime__dst(self) ==
    LET tz == GetAttr(self, "_TzInfo")
    IN  IF ~IsOk(tz) THEN tz
        ELSE _check_utc_offset("dst", _call_TzInfo_method(tz.val, "dst", self).val)

DateTime_dst(self) == OffsetAsTimeDelta(DateTime__dst(self))

\* self.replace(TzInfo=tz): the fields left out are read from self, and
\* DateTime has no attribute microsecond; _check_Time_fields takes three
\* arguments and is handed four.
DateTime_replace(self, tz) ==
    IF ~IsOk(GetAttr(self, "microsecond")) THEN GetAttr(self, "microsecond")
    ELSE IF ~IsOk(_check_Date_fields(self._Date__year, self._Date__month,
                                     self._Date__day))
    THEN _check_Date_fields(self._Date__year, self._Date__month, self._Date__day)
    ELSE Raise("TypeError")

\* The end of TzInfo.fromutc, from "if dtdst:"; dt and dtdst as the
\* statements before left them.
TzInfo_fromutc_dst(dt, dtdst) ==
    IF ~IsOk(dt) THEN dt
    ELSE IF ~IsOk(dtdst) THEN dtdst
    ELSE IF dtdst.val = None THEN Raise("ValueError")
    ELSE IF ~IsOk(TimeDelta___nonzero__(dtdst.val))
    THEN TimeDelta___nonzero__(dtdst.val)
    ELSE IF TimeDelta___nonzero__(dtdst.val).val.val
    THEN DateTime___add__(dt.val, dtdst.val)
    ELSE dt

\* TzInfo.fromutc from "if delta:", the shifted dt handed to the end.
TzInfo_fromutc_shifted(dt) ==
    TzInfo_fromutc_dst(dt, IF IsOk(dt) THEN DateTime_dst(dt.val) ELSE dt)

\* TzInfo.fromutc from "delta = dtoff - dtdst".
TzInfo_fromutc_delta(dt, dtdst, delta) ==
    IF ~IsOk(delta) THEN delta
    ELSE IF ~IsOk(TimeDelta___nonzero__(delta.val))
    THEN TimeDelta___nonzero__(delta.val)
    ELSE IF TimeDelta___nonzero__(delta.val).val.val
    THEN TzInfo_fromutc_shifted(DateTime___add__(dt, delta.val))
    ELSE TzInfo_fromutc_dst(Ok(dt), Ok(dtdst))

\* TzInfo.fromutc from "dtoff = dt.utcoffset()".
TzInfo_fromutc_offsets(dt, dtoff, dtdst) ==
    IF ~IsOk(dtoff) THEN dtoff
    ELSE IF dtoff.val = None THEN Raise("ValueError")
    ELSE IF ~IsOk(dtdst) THEN dtdst
    ELSE IF dtdst.val = None THEN Raise("ValueError")
    ELSE TzInfo_fromutc_delta(dt, dtdst.val,
                              TimeDelta___sub__(dtoff.val, dtdst.val))

\* self.fromutc(dt).  dt.TzInfo is read; DateTime has the property tzinfo
\* and the attribute _TzInfo, and nothing named TzInfo.
TzInfo_fromutc(self, dt) ==
    IF dt.type # "DateTime" THEN Raise("TypeError")
    ELSE IF ~IsOk(GetAttr(dt, "TzInfo")) THEN GetAttr(dt, "TzInfo")
    ELSE IF GetAttr(dt, "TzInfo").val # self THEN Raise("ValueError")
    ELSE TzInfo_fromutc_offsets(dt, DateTime_utcoffset(dt), DateTime_dst(dt))

\* The end of asTimezone, from "utc = (self - myoffset).replace(TzInfo=tz)";
\* diff is self - myoffset.
DateTime_asTimezone_utc(tz, diff) ==
    IF ~IsOk(diff) THEN diff
    ELSE IF ~IsOk(DateTime_replace(diff.val, tz)) THEN DateTime_replace(diff.val, tz)
    ELSE TzInfo_fromutc(tz, DateTime_replace(diff.val, tz).val)

\* asTimezone from "myoffset = self.utcoffset()".  The name ValuError is
\* bound nowhere.
DateTime_asTimezone_offset(self, tz, myoffset) ==
    IF ~IsOk(myoffset) THEN myoffset
    ELSE IF myoffset.val = None THEN Raise("NameError")
    ELSE DateTime_asTimezone_utc(tz, DateTime___sub__(self, myoffset.val))

\* self.asTimezone(tz).  self.TzInfo is read; DateTime has the property
\* tzinfo and the attribute _TzInfo, and nothing named TzInfo.
DateTime_asTimezone(self, tz) ==
    IF tz.type # "TzInfo" THEN Raise("TypeError")
    ELSE IF ~IsOk(GetAttr(self, "TzInfo")) THEN GetAttr(self, "TzInfo")
    ELSE IF GetAttr(self, "TzInfo").val = None THEN Raise("ValueError")
    ELSE IF GetAttr(self, "TzInfo").val = tz THEN Ok(self)
    ELSE DateTime_asTimezone_offset(self, tz, DateTime_utcoffset(self))

\* The base_compare branch of DateTime.__cmp: cmp() of the two field tuples.
DateTime___cmp_fields(self, other) ==
    IF ~IsOk(GetAttr(self, "_DateTime__microsecond"))
    THEN GetAttr(self, "_DateTime__microsecond")
    ELSE IF ~IsOk(GetAttr(other, "_DateTime__microsecond"))
    THEN GetAttr(other, "_DateTime__microsecond")
    ELSE Ok(cmp(<<self._DateTime__year, self._DateTime__month,
                  self._DateTime__day, self._DateTime__hour,
                  self._DateTime__minute, self._DateTime__second,
                  self._DateTime__microsecond>>,
                <<other._DateTime__year, other._DateTime__month,
                  other._DateTime__day, other._DateTime__hour,
                  other._DateTime__minute, other._DateTime__second,
                  other._DateTime__microsecond>>))

\* The end of DateTime.__cmp, from diff = self - other.
DateTime___cmp_diff(diff) ==
    IF ~IsOk(diff) THEN diff
    ELSE IF TimeDelta_days(diff.val).val < 0 THEN Ok(-1)
    ELSE IF ~IsOk(TimeDelta___nonzero__(diff.val))
    THEN TimeDelta___nonzero__(diff.val)
    ELSE Ok(Bool2Int(TimeDelta___nonzero__(diff.val).val.val))

DateTime___cmp(self, other) ==
    LET mytz  == GetAttr(self, "_TzInfo")
        ottz  == GetAttr(other, "_TzInfo")
        myoff == IF mytz.val # None THEN DateTime__utcoffset(self) ELSE Ok(None)
        otoff == IF ottz.val # None THEN DateTime__utcoffset(other) ELSE Ok(None)
    IN  IF ~IsOk(mytz) THEN mytz
        ELSE IF ~IsOk(ottz) THEN ottz
        ELSE IF mytz.val = ottz.val THEN DateTime___cmp_fields(self, other)
        ELSE IF ~IsOk(myoff) THEN myoff
        ELSE IF ~IsOk(otoff) THEN otoff
        ELSE IF myoff.val = otoff.val THEN DateTime___cmp_fields(self, other)
        ELSE IF myoff.val = None \/ otoff.val = None THEN Raise("TypeError")
        ELSE DateTime___cmp_diff(DateTime___sub__(self, other))

\* self.__getstate(): the ten bytes of the fields, and the zone when there is
\* one.
DateTime___getstate(self) ==
    IF ~IsOk(GetAttr(self, "_DateTime__microsecond"))
    THEN GetAttr(self, "_DateTime__microsecond")
    ELSE IF ~IsOk(GetAttr(self, "_TzInfo")) THEN GetAttr(self, "_TzInfo")
    ELSE LET us        == self._DateTime__microsecond
             basestate == <<self._DateTime__year \div 256,
                            self._DateTime__year % 256, self._DateTime__month,
                            self._DateTime__day, self._DateTime__hour,
                            self._DateTime__minute, self._DateTime__second,
                            (us \div 256) \div 256, (us \div 256) % 256, us % 256>>
         IN  IF self._TzInfo = None THEN Ok(<<basestate>>)
             ELSE Ok(<<basestate, self._TzInfo>>)

DateTime___reduce__(self) == DateTime___getstate(self)

\* The end of DateTime.__hash__, from "days = _ymd2ord(...)", for an offset
\* that is not None.  self.microsecond is read; DateTime has the attribute
\* __microsecond and no property for it.
DateTime___hash___shifted(self, days, seconds) ==
    IF ~IsOk(days) THEN days
    ELSE IF ~IsOk(GetAttr(self, "microsecond")) THEN GetAttr(self, "microsecond")
    ELSE LET td == TimeDelta_new(days.val, seconds, self.microsecond, 0, 0)
         IN  IF ~IsOk(td) THEN td
             ELSE IF ~IsOk(TimeDelta___getstate(td.val))
             THEN TimeDelta___getstate(td.val)
             ELSE Ok(HashOf("tuple", TimeDelta___getstate(td.val).val))

\* DateTime.__hash__ from "if tzoff is None", tzoff what _utcoffset returned
\* or raised and state what __getstate returns or raises.
DateTime___hash___offset(self, tzoff, state) ==
    IF ~IsOk(tzoff) THEN tzoff
    ELSE IF tzoff.val = None
    THEN IF ~IsOk(state) THEN state ELSE Ok(HashOf("str", state.val[1]))
    ELSE DateTime___hash___shifted(
             self,
             _ymd2ord(self._Date__year, self._Date__month, self._Date__day),
             self._DateTime__hour * 3600
                 + (self._DateTime__minute - tzoff.val.val) * 60
                 + self._DateTime__second)

DateTime___hash__(self) ==
    DateTime___hash___offset(self, DateTime__utcoffset(self),
                             DateTime___getstate(self))

\* DateTime(*state): the class called with what __reduce__ returned.
DateTime_new_reduced(state) ==
    DateTime_new_state(state[1], IF Len(state) > 1 THEN state[2] ELSE None)

DateTime_richcmp(self, other, opname) ==
    IF other.type = "DateTime"
    THEN CmpResult(opname, DateTime___cmp(self, other))
    ELSE IF HasTimetuple(other) /\ ~IsInstanceDate(other) THEN Ok(NotImplemented)
    ELSE CmpFallback(opname)

\* x.opname(y), dispatched on the class of x.  An int has no rich comparison
\* method.
RichCmp(self, other, opname) ==
    CASE self.type = "TimeDelta" -> TimeDelta_richcmp(self, other, opname)
      [] self.type = "Date"      -> Date_richcmp(self, other, opname)
      [] self.type = "Time"      -> Time_richcmp(self, other, opname)
      [] self.type = "DateTime"  -> DateTime_richcmp(self, other, opname)
      [] OTHER                   -> Ok(NotImplemented)

\* The method the interpreter calls on the right operand for opname.
Reflected(opname) ==
    CASE opname = "__eq__" -> "__eq__"
      [] opname = "__ne__" -> "__ne__"
      [] opname = "__lt__" -> "__gt__"
      [] opname = "__le__" -> "__ge__"
      [] opname = "__gt__" -> "__lt__"
      [] opname = "__ge__" -> "__le__"

\* The outcomes of "v op w" from what the method called first and the method
\* called second return.
PyRichCompareTry(first, second, opname) ==
    IF first # Ok(NotImplemented) THEN {first}
    ELSE IF second # Ok(NotImplemented) THEN {second}
    ELSE IF opname = "__eq__" THEN {Ok(PyBool(FALSE))}
    ELSE IF opname = "__ne__" THEN {Ok(PyBool(TRUE))}
    ELSE {Ok(PyBool(FALSE)), Ok(PyBool(TRUE))}

\* The outcomes of the expression "v op w".  The interpreter calls the method
\* of the right operand first when its class is a subclass of the left
\* operand's (DateTime of Date), otherwise the left operand's first; when both
\* return NotImplemented it compares identities for == and != and orders
\* the two objects arbitrarily for the other operators.
PyRichCompare(v, w, opname) ==
    LET swapped == v.type = "Date" /\ w.type = "DateTime" IN
    PyRichCompareTry(RichCmp(IF swapped THEN w ELSE v, IF swapped THEN v ELSE w,
                             IF swapped THEN Reflected(opname) ELSE opname),
                     RichCmp(IF swapped THEN v ELSE w, IF swapped THEN w ELSE v,
                             IF swapped THEN opname ELSE Reflected(opname)),
                     opname)

\* ----------------------------------------------------------------- inputs

Years ==
    (MINYEAR .. MINYEAR + YearSpan + 2)
        \cup (100 - YearSpan .. 100 + YearSpan)
        \cup (400 - YearSpan .. 400 + YearSpan)
        \cup (2000 - YearSpan .. 2000)
        \cup (2020 .. 2024)
        \cup (MAXYEAR - YearSpan .. MAXYEAR)

\* Every Date the constructor returns for a year of Years.
Dates ==
    { Date_new(y, m, d).val :
        <<y, m, d>> \in { t \in Years \X (1..12) \X (1..31) :
                            IsOk(Date_new(t[1], t[2], t[3])) } }

MaxOrdinal == 3652059

Ordinals ==
    (1 .. OrdSpan)
        \cup (_DI100Y - OrdSpan .. _DI100Y + OrdSpan)
        \cup (_DI400Y - OrdSpan .. _DI400Y + OrdSpan)
        \cup (MaxOrdinal - OrdSpan .. MaxOrdinal)

\* The TimeDelta objects added to and subtracted from dates: a few days either
\* way, a month, a year, and the largest day counts the constructor accepts.
DayShifts ==
    { TimeDelta_new(k, 0, 0, 0, 0).val :
        k \in (-MaxDayShift .. MaxDayShift)
              \cup {-366, -31, 31, 366, -MaxTimeDeltaDays, MaxTimeDeltaDays} }
    \cup { TimeDelta_new(0, 0, 0, h, 0).val : h \in {-25, 23, 49} }

\* How far beyond their ranges the fields handed to tmxxx lie.
FieldOver == 1

NormalizerInputs ==
    {MINYEAR, 2023, 2024, MAXYEAR}
        \X ((1 - FieldOver .. 3) \cup (12 .. 12 + FieldOver) \cup {-11, 25})
        \X ((-FieldOver .. 1) \cup (28 .. 32 + FieldOver) \cup {-400, 400})
        \X ((-FieldOver .. 0) \cup (23 .. 23 + FieldOver))
        \X ((-FieldOver .. 0) \cup (59 .. 59 + FieldOver))
        \X ((-FieldOver .. 0) \cup (59 .. 59 + FieldOver) \cup {-86401})
        \X ((-FieldOver .. 0) \cup (999999 .. 999999 + FieldOver) \cup {-1000001})

\* The (days, seconds, minutes, hours, weeks) handed to TimeDelta.
DurationInputs ==
    {-MaxTimeDeltaDays - 1, -MaxTimeDeltaDays, -1, 0, 1, MaxTimeDeltaDays,
     MaxTimeDeltaDays + 1}
        \X {-86401, -86400, -1, 0, 1, 59, 86399, 86400, 86401}
        \X {-1, 0, 59}
        \X {-1, 0, 23, 24}
        \X {-1, 0, 1}

\* Every TimeDelta the constructor returns for those arguments.
TimeDeltas ==
    { TimeDelta_new(a[1], a[2], a[3], a[4], a[5]).val :
        a \in { b \in DurationInputs :
                   IsOk(TimeDelta_new(b[1], b[2], b[3], b[4], b[5])) } }

\* The zone objects: one whose utcoffset() returns None, one built for five
\* hours west of UTC, one whose utcoffset() returns two days.
ZoneNoOffset == TzInfo(1, None, None)

ZoneFixed ==
    TzInfo(2, TimeDelta_new(0, 0, -300, 0, 0).val, TimeDelta_new(0, 0, 0, 0, 0).val)

ZoneTwoDays == TzInfo(3, TimeDelta_new(2, 0, 0, 0, 0).val, None)

\* A zone of UTC: utcoffset() and dst() return TimeDelta(0).
ZoneUTC ==
    TzInfo(4, TimeDelta_new(0, 0, 0, 0, 0).val, TimeDelta_new(0, 0, 0, 0, 0).val)

Zones == {ZoneNoOffset, ZoneFixed, ZoneTwoDays, ZoneUTC}

\* The operands of the comparisons differ in their day or hour by up to this.
MaxOperandStep == 1

\* The operands of the comparisons: objects of the four classes, from the
\* constructors and from their pickle support, and an int.
CompareTimeDeltas == { TimeDelta_new(k, 0, 0, 0, 0).val : k \in 0 .. MaxOperandStep }

CompareDates ==
    { Date_new(2000, 1, 1 + k).val : k \in 0 .. MaxOperandStep }
        \cup { Date_new_state(<<7, 208, 1, 1 + k>>).val : k \in 0 .. MaxOperandStep }

CompareTimes ==
    { Time_new(12 + k, 0, 0, tz).val :
        k \in 0 .. MaxOperandStep, tz \in {None, ZoneNoOffset, ZoneFixed} }
        \cup { Time_new_state(<<12 + k, 0, 0, 0, 0, 0>>, tz).val :
                 k \in 0 .. MaxOperandStep, tz \in Zones \cup {None} }

CompareDateTimes ==
    { DateTime_new(2000, 1, 1 + k, 0, 0, 0, tz).val :
        k \in 0 .. MaxOperandStep, tz \in {None, ZoneNoOffset, ZoneFixed} }
        \cup { DateTime_new_state(<<7, 208, 1, 1 + k, 0, 0, 0, 0, 0, 0>>, tz).val :
                 k \in 0 .. MaxOperandStep, tz \in Zones \cup {None} }

CompareOperands ==
    CompareTimeDeltas \cup CompareDates \cup CompareTimes \cup CompareDateTimes

\* What the constructors are handed: integer fields in and out of their
\* ranges, and pickled states with bytes in and out of the fields' ranges.
ConstructInputs ==
    { [cls |-> "Date", a |-> t] :
        t \in {0, 1, 2023, 2024, 9999, 10000} \X {0, 1, 2, 12, 13}
                 \X {0, 1, 28, 29, 30, 31, 32} }
    \cup { [cls |-> "Date", state |-> b] :
             b \in ({0, 7, 39, 255} \X {0, 15, 232} \X {0, 2, 12, 13}
                        \X {0, 1, 30, 31, 255})
                   \cup {<<7, 208, 1>>} }
    \cup { [cls |-> "Time", a |-> t, tz |-> tz] :
             t \in {-1, 0, 23, 24} \X {-1, 0, 59, 60} \X {-1, 0, 59, 60},
             tz \in {None, ZoneFixed} }
    \cup { [cls |-> "Time", state |-> b, tz |-> tz] :
             b \in { t \o us : t \in {0, 23, 24} \X {0, 59, 60} \X {0, 59, 60},
                               us \in {<<0, 0, 0>>, <<15, 66, 63>>, <<15, 66, 64>>} }
                   \cup {<<>>},
             tz \in {None, ZoneFixed} }
    \cup { [cls |-> "DateTime", a |-> t, tz |-> tz] :
             t \in {0, 2024, 9999} \X {2, 13} \X {0, 29, 30}
                      \X {0, 24} \X {59, 60} \X {-1, 59},
             tz \in {None, ZoneFixed} }
    \cup { [cls |-> "DateTime", state |-> b, tz |-> tz] :
             b \in { t \o us : t \in {0, 39} \X {0, 15} \X {0, 2, 12} \X {0, 30}
                                          \X {23, 24} \X {59, 60} \X {59, 255},
                               us \in {<<15, 66, 63>>, <<255, 255, 255>>} }
                   \cup {<<7, 208, 1, 1>>},
             tz \in {None, ZoneFixed} }

\* The TimeDeltas added to a DateTime have up to this many days either way.
MaxInstantShift == 1

\* (year, month, day, hour, minute, second) of the DateTime operands: the
\* first and the last second of the calendar, the end of a February, a
\* morning.
InstantFields ==
    {<<MINYEAR, 1, 1, 0, 0, 0>>, <<2000, 2, 28, 23, 59, 59>>,
     <<2000, 3, 1, 5, 0, 0>>, <<MAXYEAR, 12, 31, 23, 59, 59>>}

\* The DateTime operands: from the constructor with integer fields, and from
\* its pickle support with a microsecond of 0 or of 999999.
Instants ==
    { DateTime_new(f[1], f[2], f[3], f[4], f[5], f[6], tz).val :
        f \in InstantFields, tz \in Zones \cup {None} }
        \cup { DateTime_new_state(<<f[1] \div 256, f[1] % 256, f[2], f[3], f[4],
                                     f[5], f[6]>> \o us, tz).val :
                  f \in InstantFields, us \in {<<0, 0, 0>>, <<15, 66, 63>>},
                  tz \in Zones \cup {None} }

\* The TimeDelta operands of a DateTime.
InstantDurations ==
    { TimeDelta_new(d, sec, 0, 0, 0).val :
        d \in -MaxInstantShift .. MaxInstantShift, sec \in {0, 1, 86400} }

\* (hour, minute, second) of the Time operands.
TimeOfDayFields == {<<0, 0, 0>>, <<7, 0, 0>>, <<12, 0, 0>>, <<23, 59, 59>>}

\* The Time operands: from the constructor with integer fields, and from its
\* pickle support with a microsecond of 0 or of 999999.
Times ==
    { Time_new(f[1], f[2], f[3], tz).val :
        f \in TimeOfDayFields, tz \in Zones \cup {None} }
        \cup { Time_new_state(f \o us, tz).val :
                  f \in TimeOfDayFields, us \in {<<0, 0, 0>>, <<15, 66, 63>>},
                  tz \in Zones \cup {None} }

\* What utcoffset() or dst() of a zone returns: None, written <<>>, or
\* TimeDelta(days, seconds, minutes, hours), written as the four arguments.
OffsetInputs ==
    {<<>>}
        \cup ({-2, -1, 0, 1} \X {-60, -1, 0, 1, 60}
                  \X {-1440, -1439, -300, 0, 300, 1439, 1440} \X {-24, 0, 24})

\* The Dates that are pickled: the first and the last of the calendar, and
\* the ends of two Februaries.
PickledDates ==
    { Date_new(t[1], t[2], t[3]).val :
        t \in {<<MINYEAR, 1, 1>>, <<255, 12, 31>>, <<256, 1, 1>>, <<2000, 2, 29>>,
               <<2023, 2, 28>>, <<MAXYEAR, 12, 31>>} }

NoCall == [op |-> "none"]

\* A call is made on the inputs as drawn: no call has been made yet.
Ready == result.op = "none"

\* ------------------------------------------------- the calendar specification

InitCalendar ==
    /\ \/ ordinal \in Ordinals /\ date = Date_new(MINYEAR, 1, 1).val
       \/ ordinal = 1 /\ date \in Dates
    /\ args = <<>>
    /\ lhs = None
    /\ rhs = None
    /\ result = NoCall

Ymd2Ord ==
    /\ Ready
    /\ result' = [op |-> "_ymd2ord",
                  ret |-> _ymd2ord(date._Date__year, date._Date__month,
                                   date._Date__day)]
    /\ UNCHANGED inputs

Ord2Ymd ==
    /\ Ready
    /\ result' = [op |-> "_ord2ymd", ret |-> _ord2ymd(ordinal)]
    /\ UNCHANGED inputs

FromOrdinal ==
    /\ Ready
    /\ result' = [op |-> "fromordinal", ret |-> Date_fromordinal(ordinal)]
    /\ UNCHANGED inputs

Weekday ==
    /\ Ready
    /\ result' = [op |-> "weekday", ret |-> Date_weekday(date)]
    /\ UNCHANGED inputs

IsoWeekday ==
    /\ Ready
    /\ result' = [op |-> "isoweekday", ret |-> Date_isoweekday(date)]
    /\ UNCHANGED inputs

IsoCalendar ==
    /\ Ready
    /\ result' = [op |-> "isocalendar", ret |-> Date_isocalendar(date)]
    /\ UNCHANGED inputs

DateAdd ==
    /\ Ready
    /\ \E td \in DayShifts :
           result' = [op |-> "Date.__add__", arg |-> td,
                      ret |-> Date___add__(date, td)]
    /\ UNCHANGED inputs

DateSub ==
    /\ Ready
    /\ \E td \in DayShifts :
           result' = [op |-> "Date.__sub__", arg |-> td,
                      ret |-> Date___sub__(date, td)]
    /\ UNCHANGED inputs

\* sum - other, sum what an addition returned or raised.
Date___sub___after(sum, other) ==
    IF ~IsOk(sum) THEN sum ELSE Date___sub__(sum.val, other)

\* self + neg, neg what a negation returned or raised.
Date___add___after(self, neg) ==
    IF ~IsOk(neg) THEN neg ELSE Date___add__(self, neg.val)

\* (date + td) - td
DateAddSub ==
    /\ Ready
    /\ \E td \in DayShifts :
           result' = [op |-> "(a + d) - d", arg |-> td,
                      ret |-> Date___sub___after(Date___add__(date, td), td)]
    /\ UNCHANGED inputs

\* date + (-td), and date - td to set it against.
DateAddNeg ==
    /\ Ready
    /\ \E td \in DayShifts :
           result' = [op |-> "a + (-d)", arg |-> td,
                      sub |-> Date___sub__(date, td),
                      ret |-> Date___add___after(date, TimeDelta___neg__(td))]
    /\ UNCHANGED inputs

NextCalendar ==
    \/ DateAddSub
    \/ DateAddNeg
    \/ Ymd2Ord
    \/ Ord2Ymd
    \/ FromOrdinal
    \/ Weekday
    \/ IsoWeekday
    \/ IsoCalendar
    \/ DateAdd
    \/ DateSub

SpecCalendar == InitCalendar /\ [][NextCalendar]_vars

\* ----------------------------------------------- the normaliser specification

InitNormalizer ==
    /\ args \in NormalizerInputs
    /\ ordinal = 1
    /\ date = Date_new(MINYEAR, 1, 1).val
    /\ lhs = None
    /\ rhs = None
    /\ result = NoCall

Normalize ==
    /\ Ready
    /\ result' = [op |-> "tmxxx",
                  ret |-> tmxxx(args[1], args[2], args[3], args[4], args[5],
                                args[6], args[7])]
    /\ UNCHANGED inputs

NextNormalizer == Normalize

SpecNormalizer == InitNormalizer /\ [][NextNormalizer]_vars

\* ------------------------------------------------- the TimeDelta specification

InitDuration ==
    /\ \/ args \in DurationInputs /\ lhs = None /\ rhs = None
       \/ args = <<>> /\ lhs \in TimeDeltas
                      /\ rhs \in TimeDeltas \cup {PyInt(k) : k \in {-2, 0, 3}}
    /\ ordinal = 1
    /\ date = Date_new(MINYEAR, 1, 1).val
    /\ result = NoCall

TimeDeltaNew ==
    /\ Ready
    /\ args # <<>>
    /\ result' = [op |-> "TimeDelta",
                  ret |-> TimeDelta_new(args[1], args[2], args[3], args[4],
                                        args[5])]
    /\ UNCHANGED inputs

\* A unary or binary operation of a TimeDelta receiver.
TimeDeltaOp(name, ret) ==
    /\ Ready
    /\ lhs.type = "TimeDelta"
    /\ result' = [op |-> name, ret |-> ret]
    /\ UNCHANGED inputs

TimeDeltaAdd == TimeDeltaOp("TimeDelta.__add__", TimeDelta___add__(lhs, rhs))

TimeDeltaSub == TimeDeltaOp("TimeDelta.__sub__", TimeDelta___sub__(lhs, rhs))

TimeDeltaNeg == TimeDeltaOp("TimeDelta.__neg__", TimeDelta___neg__(lhs))

TimeDeltaAbs == TimeDeltaOp("TimeDelta.__abs__", TimeDelta___abs__(lhs))

TimeDeltaMul == TimeDeltaOp("TimeDelta.__mul__", TimeDelta___mul__(lhs, rhs))

TimeDeltaDiv == TimeDeltaOp("TimeDelta.__div__", TimeDelta___div__(lhs, rhs))

TimeDeltaEq == TimeDeltaOp("TimeDelta.__eq__", TimeDelta___eq__(lhs, rhs))

TimeDeltaNe == TimeDeltaOp("TimeDelta.__ne__", TimeDelta___ne__(lhs, rhs))

NextDuration ==
    \/ TimeDeltaNew
    \/ TimeDeltaAdd
    \/ TimeDeltaSub
    \/ TimeDeltaNeg
    \/ TimeDeltaAbs
    \/ TimeDeltaMul
    \/ TimeDeltaDiv
    \/ TimeDeltaEq
    \/ TimeDeltaNe

SpecDuration == InitDuration /\ [][NextDuration]_vars

\* ------------------------------------------------ the comparison specification

InitCompare ==
    /\ lhs \in CompareOperands
    /\ rhs \in CompareOperands \cup {PyInt(0)}
    /\ args = <<>>
    /\ ordinal = 1
    /\ date = Date_new(MINYEAR, 1, 1).val
    /\ result = NoCall

\* lhs op rhs, op the operator of the method opname.
Compare(opname) ==
    /\ Ready
    /\ \E ret \in PyRichCompare(lhs, rhs, opname) :
           result' = [op |-> opname, ret |-> ret]
    /\ UNCHANGED inputs

CompareEq == Compare("__eq__")

CompareNe == Compare("__ne__")

CompareLt == Compare("__lt__")

CompareLe == Compare("__le__")

CompareGt == Compare("__gt__")

CompareGe == Compare("__ge__")

NextCompare ==
    \/ CompareEq
    \/ CompareNe
    \/ CompareLt
    \/ CompareLe
    \/ CompareGt
    \/ CompareGe

SpecCompare == InitCompare /\ [][NextCompare]_vars

\* ----------------------------------------------- the construction specification

InitConstruct ==
    /\ args \in ConstructInputs
    /\ lhs = None
    /\ rhs = None
    /\ ordinal = 1
    /\ date = Date_new(MINYEAR, 1, 1).val
    /\ result = NoCall

\* The constructor of args.cls called with the integer fields args.a.
ConstructFromFields ==
    /\ Ready
    /\ HasAttr(args, "a")
    /\ result' =
           [op  |-> "new",
            ret |-> CASE args.cls = "Date" ->
                             Date_new(args.a[1], args.a[2], args.a[3])
                      [] args.cls = "Time" ->
                             Time_new(args.a[1], args.a[2], args.a[3], args.tz)
                      [] args.cls = "DateTime" ->
                             DateTime_new(args.a[1], args.a[2], args.a[3], args.a[4],
                                          args.a[5], args.a[6], args.tz)]
    /\ UNCHANGED inputs

\* The constructor of args.cls called with the pickled state args.state.
ConstructFromState ==
    /\ Ready
    /\ HasAttr(args, "state")
    /\ result' =
           [op  |-> "new",
            ret |-> CASE args.cls = "Date" -> Date_new_state(args.state)
                      [] args.cls = "Time" -> Time_new_state(args.state, args.tz)
                      [] args.cls = "DateTime" ->
                             DateTime_new_state(args.state, args.tz)]
    /\ UNCHANGED inputs

Returned(cls) ==
    /\ result.op = "new"
    /\ IsOk(result.ret)
    /\ result.ret.val.type = cls

\* replace() on the Date the constructor returned.
DateReplace ==
    /\ Returned("Date")
    /\ \E y \in {None, PyInt(0), PyInt(2023)}, m \in {None, PyInt(2), PyInt(13)},
          d \in {None, PyInt(29), PyInt(31)} :
           result' = [op |-> "replace", self |-> result.ret.val,
                      ret |-> Date_replace(result.ret.val, y, m, d)]
    /\ UNCHANGED inputs

\* A TimeDelta added to the Date or DateTime the constructor returned.
AddTimeDelta ==
    /\ \/ Returned("Date")
       \/ Returned("DateTime")
    /\ \E td \in DayShifts :
           result' = [op |-> "__add__", self |-> result.ret.val,
                      ret |-> IF result.ret.val.type = "Date"
                              THEN Date___add__(result.ret.val, td)
                              ELSE DateTime___add__(result.ret.val, td)]
    /\ UNCHANGED inputs

\* A TimeDelta subtracted from the Date or DateTime the constructor returned.
SubTimeDelta ==
    /\ \/ Returned("Date")
       \/ Returned("DateTime")
    /\ \E td \in DayShifts :
           result' = [op |-> "__sub__", self |-> result.ret.val,
                      ret |-> IF result.ret.val.type = "Date"
                              THEN Date___sub__(result.ret.val, td)
                              ELSE DateTime___sub__(result.ret.val, td)]
    /\ UNCHANGED inputs

\* Date.fromordinal(n), whatever was constructed before.
DateFromOrdinal ==
    /\ result.op = "new"
    /\ \E n \in {0, 1, 59, 60, MaxOrdinal, MaxOrdinal + 1} :
           result' = [op |-> "fromordinal", arg |-> n, ret |-> Date_fromordinal(n)]
    /\ UNCHANGED inputs

\* DateTime.combine of the Date the constructor returned and a Time.
DateTimeCombine ==
    /\ Returned("Date")
    /\ \E t \in CompareTimes :
           result' = [op |-> "combine", self |-> result.ret.val,
                      ret |-> DateTime_combine(result.ret.val, t)]
    /\ UNCHANGED inputs

\* asTimezone() on the DateTime the constructor returned.
DateTimeAsTimezone ==
    /\ Returned("DateTime")
    /\ \E tz \in Zones \cup {None} :
           result' = [op |-> "asTimezone", self |-> result.ret.val, arg |-> tz,
                      ret |-> DateTime_asTimezone(result.ret.val, tz)]
    /\ UNCHANGED inputs

NextConstruct ==
    \/ ConstructFromFields
    \/ ConstructFromState
    \/ DateReplace
    \/ AddTimeDelta
    \/ SubTimeDelta
    \/ DateFromOrdinal
    \/ DateTimeCombine
    \/ DateTimeAsTimezone

SpecConstruct == InitConstruct /\ [][NextConstruct]_vars

\* -------------------------------------------------- the DateTime specification

\* utc.asTimezone(tz), utc what an asTimezone before returned or raised.
DateTime_asTimezone_again(utc, tz) ==
    IF ~IsOk(utc) THEN utc ELSE DateTime_asTimezone(utc.val, tz)

InitInstant ==
    /\ lhs \in Instants
    /\ rhs \in Instants \cup InstantDurations
    /\ args = <<>>
    /\ ordinal = 1
    /\ date = Date_new(MINYEAR, 1, 1).val
    /\ result = NoCall

\* lhs + rhs, rhs a TimeDelta.
InstantAdd ==
    /\ Ready
    /\ rhs.type = "TimeDelta"
    /\ result' = [op |-> "DateTime.__add__", ret |-> DateTime___add__(lhs, rhs)]
    /\ UNCHANGED inputs

\* lhs - rhs, rhs a TimeDelta or a DateTime.
InstantSub ==
    /\ Ready
    /\ result' = [op |-> "DateTime.__sub__", ret |-> DateTime___sub__(lhs, rhs)]
    /\ UNCHANGED inputs

\* lhs.asTimezone(tz)
InstantAsTimezone ==
    /\ Ready
    /\ \E tz \in Zones \cup {None} :
           result' = [op |-> "asTimezone", arg |-> tz,
                      ret |-> DateTime_asTimezone(lhs, tz)]
    /\ UNCHANGED inputs

\* tz.fromutc(lhs)
InstantFromUtc ==
    /\ Ready
    /\ \E tz \in Zones :
           result' = [op |-> "fromutc", arg |-> tz, ret |-> TzInfo_fromutc(tz, lhs)]
    /\ UNCHANGED inputs

\* lhs.asTimezone(ZoneUTC).asTimezone(tz)
InstantThereAndBack ==
    /\ Ready
    /\ \E tz \in Zones :
           result' = [op |-> "asTimezone.asTimezone", arg |-> tz,
                      ret |-> DateTime_asTimezone_again(
                                  DateTime_asTimezone(lhs, ZoneUTC), tz)]
    /\ UNCHANGED inputs

\* sum - other, sum what an addition returned or raised.
DateTime___sub___after(sum, other) ==
    IF ~IsOk(sum) THEN sum ELSE DateTime___sub__(sum.val, other)

\* self + diff, diff what a subtraction returned or raised.
DateTime___add___after(self, diff) ==
    IF ~IsOk(diff) THEN diff ELSE DateTime___add__(self, diff.val)

\* -diff, diff what a subtraction returned or raised.
TimeDelta___neg___after(diff) ==
    IF ~IsOk(diff) THEN diff ELSE TimeDelta___neg__(diff.val)

\* (lhs + rhs) - lhs, rhs a TimeDelta.
InstantAddSubSelf ==
    /\ Ready
    /\ rhs.type = "TimeDelta"
    /\ result' = [op |-> "(x + d) - x",
                  ret |-> DateTime___sub___after(DateTime___add__(lhs, rhs), lhs)]
    /\ UNCHANGED inputs

\* (lhs + rhs) - rhs, rhs a TimeDelta.
InstantAddSubDelta ==
    /\ Ready
    /\ rhs.type = "TimeDelta"
    /\ result' = [op |-> "(x + d) - d",
                  ret |-> DateTime___sub___after(DateTime___add__(lhs, rhs), rhs)]
    /\ UNCHANGED inputs

\* rhs + (lhs - rhs), rhs a DateTime.
InstantSubAdd ==
    /\ Ready
    /\ rhs.type = "DateTime"
    /\ result' = [op |-> "b + (a - b)",
                  ret |-> DateTime___add___after(rhs, DateTime___sub__(lhs, rhs))]
    /\ UNCHANGED inputs

\* lhs - rhs and -(rhs - lhs), rhs a DateTime.
InstantSubNeg ==
    /\ Ready
    /\ rhs.type = "DateTime"
    /\ result' = [op |-> "-(b - a)", arg |-> DateTime___sub__(lhs, rhs),
                  ret |-> TimeDelta___neg___after(DateTime___sub__(rhs, lhs))]
    /\ UNCHANGED inputs

\* lhs == rhs, rhs a DateTime.
InstantEq ==
    /\ Ready
    /\ rhs.type = "DateTime"
    /\ \E ret \in PyRichCompare(lhs, rhs, "__eq__") :
           result' = [op |-> "DateTime.__eq__", ret |-> ret]
    /\ UNCHANGED inputs

\* hash(lhs) and hash(rhs), rhs a DateTime.
InstantHash ==
    /\ Ready
    /\ rhs.type = "DateTime"
    /\ result' = [op |-> "DateTime.__hash__", ret |-> DateTime___hash__(lhs),
                  other |-> DateTime___hash__(rhs)]
    /\ UNCHANGED inputs

NextInstant ==
    \/ InstantEq
    \/ InstantHash
    \/ InstantAdd
    \/ InstantSub
    \/ InstantAsTimezone
    \/ InstantFromUtc
    \/ InstantThereAndBack
    \/ InstantAddSubSelf
    \/ InstantAddSubDelta
    \/ InstantSubAdd
    \/ InstantSubNeg

SpecInstant == InitInstant /\ [][NextInstant]_vars

\* ------------------------------------------------------ the Time specification

InitTime ==
    /\ lhs \in Times
    /\ rhs \in Times
    /\ args = <<>>
    /\ ordinal = 1
    /\ date = Date_new(MINYEAR, 1, 1).val
    /\ result = NoCall

\* lhs == rhs
TimeEq ==
    /\ Ready
    /\ result' = [op |-> "Time.__eq__", ret |-> Time_richcmp(lhs, rhs, "__eq__")]
    /\ UNCHANGED inputs

\* hash(lhs) and hash(rhs)
TimeHash ==
    /\ Ready
    /\ result' = [op |-> "Time.__hash__", ret |-> Time___hash__(lhs),
                  other |-> Time___hash__(rhs)]
    /\ UNCHANGED inputs

NextTime ==
    \/ TimeEq
    \/ TimeHash

SpecTime == InitTime /\ [][NextTime]_vars

\* ---------------------------------------------------- the offset specification

InitOffset ==
    /\ args \in OffsetInputs
    /\ lhs = None
    /\ rhs = None
    /\ ordinal = 1
    /\ date = Date_new(MINYEAR, 1, 1).val
    /\ result = NoCall

\* The object the zone's method returns.
OffsetReturned ==
    IF args = <<>> THEN None
    ELSE TimeDelta_new(args[1], args[2], args[3], args[4], 0).val

\* _check_utc_offset("utcoffset", offset)
CheckUtcOffset ==
    /\ Ready
    /\ result' = [op |-> "_check_utc_offset", name |-> "utcoffset",
                  ret |-> _check_utc_offset("utcoffset", OffsetReturned)]
    /\ UNCHANGED inputs

\* _check_utc_offset("dst", offset)
CheckDstOffset ==
    /\ Ready
    /\ result' = [op |-> "_check_utc_offset", name |-> "dst",
                  ret |-> _check_utc_offset("dst", OffsetReturned)]
    /\ UNCHANGED inputs

NextOffset ==
    \/ CheckUtcOffset
    \/ CheckDstOffset

SpecOffset == InitOffset /\ [][NextOffset]_vars

\* ---------------------------------------------------- the pickle specification

InitPickle ==
    /\ date \in PickledDates
    /\ lhs \in Instants
    /\ rhs = None
    /\ args = <<>>
    /\ ordinal = 1
    /\ result = NoCall

\* date.__reduce__()
DateReduce ==
    /\ Ready
    /\ result' = [op |-> "Date.__reduce__", ret |-> Date___reduce__(date)]
    /\ UNCHANGED inputs

\* Date(*state), state what date.__reduce__() returned.
DateRebuild ==
    /\ result.op = "Date.__reduce__"
    /\ IsOk(result.ret)
    /\ result' = [op |-> "Date(*state)", ret |-> Date_new_state(result.ret.val[1])]
    /\ UNCHANGED inputs

\* lhs.__reduce__()
DateTimeReduce ==
    /\ Ready
    /\ result' = [op |-> "DateTime.__reduce__", ret |-> DateTime___reduce__(lhs)]
    /\ UNCHANGED inputs

\* DateTime(*state), state what lhs.__reduce__() returned.
DateTimeRebuild ==
    /\ result.op = "DateTime.__reduce__"
    /\ IsOk(result.ret)
    /\ result' = [op |-> "DateTime(*state)",
                  ret |-> DateTime_new_reduced(result.ret.val)]
    /\ UNCHANGED inputs

NextPickle ==
    \/ DateReduce
    \/ DateRebuild
    \/ DateTimeReduce
    \/ DateTimeRebuild

SpecPickle == InitPickle /\ [][NextPickle]_vars

\* ------------------------------------------------------------------ claims

DateYmd(d) == <<d._Date__year, d._Date__month, d._Date__day>>

ValidYmd(t) ==
    /\ MINYEAR <= t[1] /\ t[1] <= MAXYEAR
    /\ 1 <= t[2] /\ t[2] <= 12
    /\ 1 <= t[3] /\ t[3] <= _days_in_month(t[1], t[2])

\* C1: _ymd2ord and _ord2ymd are inverses of each other.  The ordinal of a
\* valid date (y, m, d) lies in 1..MaxOrdinal and _ord2ymd takes it back to
\* (y, m, d); _ord2ymd of an ordinal n of 1..MaxOrdinal is a valid date of the
\* years 1..9999 and _ymd2ord takes it back to n.
C1_Bijective ==
    /\ result.op = "_ymd2ord" =>
           /\ IsOk(result.ret)
           /\ 1 <= result.ret.val /\ result.ret.val <= MaxOrdinal
           /\ _ord2ymd(result.ret.val) = Ok(DateYmd(date))
    /\ result.op = "_ord2ymd" =>
           /\ IsOk(result.ret)
           /\ ValidYmd(result.ret.val)
           /\ _ymd2ord(result.ret.val[1], result.ret.val[2], result.ret.val[3])
                  = Ok(ordinal)

\* The last day of the first 400-year cycle (the n100 = 4 case) came back
\* from _ord2ymd, and so did a leap day.
C1_Witness ==
    /\ result.op = "_ord2ymd"
    /\ ordinal = _DI400Y
    /\ result.ret = Ok(<<400, 12, 31>>)

\* C8: weekday() is (ordinal + 6) mod 7 with Monday = 0, isoweekday() is
\* weekday() + 1, the day after a date has the next weekday modulo 7, and
\* Date(1, 1, 1) is a Monday.
C8_Weekday ==
    result.op \in {"weekday", "isoweekday"} =>
        LET o   == Date_toordinal(date).val
            wd  == Date_weekday(date)
            iso == Date_isoweekday(date)
        IN  /\ IsOk(wd) /\ IsOk(iso)
            /\ result.op = "weekday" => result.ret = Ok((o + 6) % 7)
            /\ result.op = "isoweekday" =>
                   result.ret = Ok(IF o % 7 = 0 THEN 7 ELSE o % 7)
            /\ wd.val \in 0..6
            /\ iso.val = wd.val + 1
            /\ o < MaxOrdinal =>
                   Date_weekday(Date_fromordinal(o + 1).val).val = (wd.val + 1) % 7
            /\ DateYmd(date) = <<1, 1, 1>> => wd.val = 0

\* isoweekday() of a Sunday, the case of the "or 7".
C8_Witness ==
    /\ result.op = "isoweekday"
    /\ DateYmd(date) = <<2023, 12, 31>>
    /\ result.ret = Ok(7)

\* The ISO 8601 calendar of the day with ordinal o, from the definition: the
\* ISO year is the calendar year of the Thursday of o's Monday-to-Sunday week,
\* and the week number counts the Thursdays of that year up to that one.
IsoReference(o) ==
    LET wd       == (o + 6) % 7
        thursday == o - wd + 3
        isoyear  == _ord2ymd(thursday).val[1]
        jan1     == _ymd2ord(isoyear, 1, 1).val
    IN  <<isoyear, ((thursday - jan1) \div 7) + 1, wd + 1>>

\* C7: isocalendar() returns the ISO 8601 (year, week, weekday): week 1 is the
\* Monday-to-Sunday week holding the year's first Thursday.  A date of the
\* previous ISO year is in its week 52 or 53 and lies before its calendar
\* year's week-1 Monday; a date of the next ISO year is in its week 1 and lies
\* on or after that year's week-1 Monday.  Date(2021, 1, 1) is (2020, 53, 5).
C7_IsoCalendar ==
    result.op = "isocalendar" =>
        LET o == Date_toordinal(date).val
            y == date._Date__year
        IN  /\ IsOk(result.ret)
            /\ result.ret.val = IsoReference(o)
            /\ result.ret.val[1] \in {y - 1, y, y + 1}
            /\ o < _isoweek1monday(y) <=> result.ret.val[1] = y - 1
            /\ result.ret.val[1] = y - 1 => result.ret.val[2] \in {52, 53}
            /\ o >= _isoweek1monday(y + 1) <=> result.ret.val[1] = y + 1
            /\ result.ret.val[1] = y + 1 => result.ret.val[2] = 1
            /\ DateYmd(date) = <<2021, 1, 1>> => result.ret.val = <<2020, 53, 5>>

\* January 1 of 2021 fell in week 53 of the ISO year 2020.
C7_Witness ==
    /\ result.op = "isocalendar"
    /\ DateYmd(date) = <<2021, 1, 1>>
    /\ result.ret = Ok(<<2020, 53, 5>>)

\* C6: a Date plus a TimeDelta d is the Date d.days days later: its ordinal is
\* the receiver's plus d.days when that day is of the years 1..9999, and the
\* addition raises OverflowError otherwise.  Date(2024, 2, 28) + 1 day is
\* Date(2024, 2, 29) and Date(2023, 2, 28) + 1 day is Date(2023, 3, 1).
C6_DateAdd ==
    result.op = "Date.__add__" =>
        LET o      == Date_toordinal(date).val + result.arg._TimeDelta__days
            target == _ord2ymd(o).val
            oneDay == result.arg._TimeDelta__days = 1
        IN  /\ IF MINYEAR <= target[1] /\ target[1] <= MAXYEAR
               THEN /\ IsOk(result.ret)
                    /\ result.ret.val.type = "Date"
                    /\ ValidYmd(DateYmd(result.ret.val))
                    /\ Date_toordinal(result.ret.val) = Ok(o)
               ELSE result.ret = Raise("OverflowError")
            /\ DateYmd(date) = <<2024, 2, 28>> /\ oneDay =>
                   DateYmd(result.ret.val) = <<2024, 2, 29>>
            /\ DateYmd(date) = <<2023, 2, 28>> /\ oneDay =>
                   DateYmd(result.ret.val) = <<2023, 3, 1>>

\* One day added to the last day of a February that has no leap day.
C6_Witness ==
    /\ result.op = "Date.__add__"
    /\ DateYmd(date) = <<2023, 2, 28>>
    /\ result.arg._TimeDelta__days = 1
    /\ IsOk(result.ret)
    /\ DateYmd(result.ret.val) = <<2023, 3, 1>>

TmFields(t) ==
    <<t.year, t.month, t.day, t.hour, t.minute, t.second, t.microsecond>>

\* C5: tmxxx is idempotent.  For every tuple of fields, in or out of their
\* ranges, normalising the seven fields tmxxx returned gives the same seven
\* fields.
C5_Idempotent ==
    result.op = "tmxxx" =>
        /\ IsOk(result.ret)
        /\ LET t     == result.ret.val
               again == tmxxx(t.year, t.month, t.day, t.hour, t.minute, t.second,
                              t.microsecond)
           IN  IsOk(again) /\ TmFields(again.val) = TmFields(t)

\* One microsecond too many on the last second of 2023 carried through every
\* field into the first instant of 2024.
C5_Witness ==
    /\ result.op = "tmxxx"
    /\ args = <<2023, 12, 31, 23, 59, 59, 1000000>>
    /\ TmFields(result.ret.val) = <<2024, 1, 1, 0, 0, 0, 0>>

\* The canonical (days, seconds) of the span of the constructor's arguments:
\* the carry out of the seconds is taken by floor division.
CanonicalSpan(a) ==
    LET total == a[2] + a[3] * 60 + a[4] * 3600
    IN  <<a[1] + a[5] * 7 + (total \div 86400), total % 86400>>

Abs(k) == IF k < 0 THEN -k ELSE k

\* C2: the TimeDelta constructor returns the canonical form of its arguments'
\* span: seconds in 0..86399, microseconds in 0..999999, the sign carried by
\* the days alone, the same span; TimeDelta(days=0, seconds=-1) is
\* (days=-1, seconds=86399, microseconds=0).
C2_Canonical ==
    result.op = "TimeDelta" /\ Abs(CanonicalSpan(args)[1]) <= MaxTimeDeltaDays =>
        /\ IsOk(result.ret)
        /\ TimeDelta_days(result.ret.val) = Ok(CanonicalSpan(args)[1])
        /\ TimeDelta_seconds(result.ret.val) = Ok(CanonicalSpan(args)[2])
        /\ TimeDelta_microseconds(result.ret.val) = Ok(0)

\* C3: the TimeDelta constructor raises OverflowError exactly when the
\* canonical day count of its arguments is beyond 999999999 either way, and
\* no TimeDelta the constructor or an arithmetic operation returns has a day
\* count beyond it.
C3_Overflow ==
    /\ result.op = "TimeDelta" =>
           (result.ret = Raise("OverflowError")
                <=> Abs(CanonicalSpan(args)[1]) > MaxTimeDeltaDays)
    /\ /\ result.op \in {"TimeDelta", "TimeDelta.__add__", "TimeDelta.__sub__",
                          "TimeDelta.__neg__", "TimeDelta.__abs__",
                          "TimeDelta.__mul__", "TimeDelta.__div__"}
       /\ IsOk(result.ret)
       /\ result.ret.val.type = "TimeDelta"
       => Abs(result.ret.val._TimeDelta__days) <= MaxTimeDeltaDays

\* The zone handed to the constructor of a Time or DateTime.
ZoneOf(obj) == IF HasAttr(obj, "_TzInfo") THEN obj._TzInfo ELSE obj._tzinfo

\* The attribute name of obj is an integer of lo..hi.
AttrIn(obj, name, lo, hi) ==
    /\ HasAttr(obj, name)
    /\ lo <= obj[name] /\ obj[name] <= hi

InRangeDate(obj) == ValidYmd(DateYmd(obj))

InRangeTime(obj) ==
    /\ AttrIn(obj, "_Time__hour", 0, 23)
    /\ AttrIn(obj, "_Time__minute", 0, 59)
    /\ AttrIn(obj, "_Time__second", 0, 59)
    /\ AttrIn(obj, "_Time__microsecond", 0, 999999)

InRangeDateTime(obj) ==
    /\ InRangeDate(obj)
    /\ ValidYmd(<<obj._DateTime__year, obj._DateTime__month, obj._DateTime__day>>)
    /\ AttrIn(obj, "_DateTime__hour", 0, 23)
    /\ AttrIn(obj, "_DateTime__minute", 0, 59)
    /\ AttrIn(obj, "_DateTime__second", 0, 59)
    /\ AttrIn(obj, "_DateTime__microsecond", 0, 999999)

\* C4: every Date, Time and DateTime that a constructor (from fields or from
\* a pickled state), replace(), fromordinal(), combine(), asTimezone(), or the
\* addition or subtraction of a TimeDelta returns has its fields in their
\* ranges: year 1..9999, month 1..12, day 1..days in the month, hour 0..23,
\* minute 0..59, second 0..59, microsecond 0..999999.
C4_FieldRanges ==
    /\ result.op \in {"new", "replace", "fromordinal", "combine", "asTimezone",
                      "__add__", "__sub__"}
    /\ IsOk(result.ret)
    =>
        /\ result.ret.val.type = "Date" => InRangeDate(result.ret.val)
        /\ result.ret.val.type = "Time" => InRangeTime(result.ret.val)
        /\ result.ret.val.type = "DateTime" => InRangeDateTime(result.ret.val)

\* C9: == and != on TimeDelta, Date, Time and DateTime never raise: whatever
\* the two operands are, the test returns True or False.
C9_EqualityTotal ==
    result.op \in {"__eq__", "__ne__"} =>
        /\ IsOk(result.ret)
        /\ result.ret.val.type = "bool"

\* C10: a comparison of a DateTime that has no zone with a DateTime that has
\* one raises TypeError, whichever of the two is the left operand and
\* whatever the zone's utcoffset() returns.
C10_NaiveAware ==
    /\ result.op \in {"__eq__", "__ne__", "__lt__", "__le__", "__gt__", "__ge__"}
    /\ lhs.type = "DateTime" /\ rhs.type = "DateTime"
    /\ (ZoneOf(lhs) = None) # (ZoneOf(rhs) = None)
    => result.ret = Raise("TypeError")

\* (ordinal, second of the day, microsecond) of a DateTime; a DateTime that
\* was given no microsecond counts as having 0.
InstantPoint(obj) ==
    <<_ymd2ord(obj._DateTime__year, obj._DateTime__month, obj._DateTime__day).val,
      obj._DateTime__hour * 3600 + obj._DateTime__minute * 60
          + obj._DateTime__second,
      IF HasAttr(obj, "_DateTime__microsecond") THEN obj._DateTime__microsecond
      ELSE 0>>

\* (days, seconds, microseconds) of a TimeDelta; a TimeDelta that was given no
\* microseconds counts as having 0.
DurationSpan(td) ==
    <<td._TimeDelta__days, td._TimeDelta__seconds,
      IF HasAttr(td, "_TimeDelta__microseconds") THEN td._TimeDelta__microseconds
      ELSE 0>>

\* The point p moved by (days, seconds, microseconds), the carries taken by
\* floor division.
PointPlus(p, span) ==
    LET us  == p[3] + span[3]
        sec == p[2] + span[2] + (us \div 1000000)
    IN  <<p[1] + span[1] + (sec \div 86400), sec % 86400, us % 1000000>>

\* The fields of a DateTime are those of a valid date and time of day.
ValidInstant(obj) ==
    /\ ValidYmd(<<obj._DateTime__year, obj._DateTime__month, obj._DateTime__day>>)
    /\ obj._DateTime__hour \in 0 .. 23
    /\ obj._DateTime__minute \in 0 .. 59
    /\ obj._DateTime__second \in 0 .. 59

\* C11: a DateTime x plus a TimeDelta d is the DateTime whose (ordinal,
\* time of day) is that of x moved by the (days, seconds, microseconds) of d,
\* every carry taken, and the addition raises OverflowError exactly when that
\* ordinal is outside the years 1..9999.
C11_InstantAdd ==
    result.op = "DateTime.__add__" =>
        LET expected == PointPlus(InstantPoint(lhs), DurationSpan(rhs))
        IN  IF 1 <= expected[1] /\ expected[1] <= MaxOrdinal
            THEN /\ IsOk(result.ret)
                 /\ result.ret.val.type = "DateTime"
                 /\ ValidInstant(result.ret.val)
                 /\ InstantPoint(result.ret.val) = expected
            ELSE result.ret = Raise("OverflowError")

\* The canonical (days, seconds, microseconds) of a span given with fields of
\* either sign, the carries taken by floor division.
Canonical(days, seconds, microseconds) ==
    LET sec == seconds + (microseconds \div 1000000)
    IN  <<days + (sec \div 86400), sec % 86400, microseconds % 1000000>>

\* The difference of the fields of two DateTimes.
PointMinus(p, q) == Canonical(p[1] - q[1], p[2] - q[2], p[3] - q[3])

\* utcoffset() of a zone returns a TimeDelta of whole minutes within a day
\* either way.
ZoneResolves(z) ==
    /\ z # None
    /\ z.utcoffset # None
    /\ DurationSpan(z.utcoffset)[1] \in {-1, 0}
    /\ DurationSpan(z.utcoffset)[2] % 60 = 0
    /\ DurationSpan(z.utcoffset)[3] = 0

\* The minutes that utcoffset() of a zone that resolves returns.
ZoneMinutes(z) ==
    (DurationSpan(z.utcoffset)[1] * 86400 + DurationSpan(z.utcoffset)[2]) \div 60

\* C12: a - b of two DateTimes is the difference of their fields when neither
\* has a zone or both have the same zone object, the difference of their
\* fields plus b's offset minus a's when both have a zone and the zones
\* differ, and a TypeError when exactly one of them has a zone.
C12_InstantSub ==
    result.op = "DateTime.__sub__" /\ rhs.type = "DateTime" =>
        LET za   == ZoneOf(lhs)
            zb   == ZoneOf(rhs)
            diff == PointMinus(InstantPoint(lhs), InstantPoint(rhs))
        IN  IF (za = None) # (zb = None) THEN result.ret = Raise("TypeError")
            ELSE IF za = zb
            THEN /\ IsOk(result.ret)
                 /\ result.ret.val.type = "TimeDelta"
                 /\ DurationSpan(result.ret.val) = diff
            ELSE ZoneResolves(za) /\ ZoneResolves(zb) =>
                 /\ IsOk(result.ret)
                 /\ result.ret.val.type = "TimeDelta"
                 /\ DurationSpan(result.ret.val)
                        = Canonical(diff[1],
                                    diff[2] + (ZoneMinutes(zb) - ZoneMinutes(za)) * 60,
                                    diff[3])

\* The point of UTC that a DateTime denotes: its fields less the offset of
\* its zone, and its fields as they are when its zone gives no offset.
UtcPoint(obj) ==
    LET p == InstantPoint(obj)
        z == ZoneOf(obj)
    IN  Canonical(p[1], p[2] - (IF ZoneResolves(z) THEN ZoneMinutes(z) * 60 ELSE 0),
                  p[3])

ComparisonOps == {"__eq__", "__ne__", "__lt__", "__le__", "__gt__", "__ge__"}

\* C13: two DateTimes that have the same zone object, or two zones that both
\* give an offset, compare as the points of UTC they denote: by their fields
\* when the zone or the offsets are the same, by the sign of their difference
\* otherwise, so that two DateTimes of different offsets that denote the same
\* point of UTC are equal.
C13_InstantCompare ==
    /\ result.op \in ComparisonOps
    /\ lhs.type = "DateTime" /\ rhs.type = "DateTime"
    /\ ZoneOf(lhs) # None /\ ZoneOf(rhs) # None
    /\ \/ ZoneOf(lhs) = ZoneOf(rhs)
       \/ ZoneResolves(ZoneOf(lhs)) /\ ZoneResolves(ZoneOf(rhs))
    => result.ret
          = Ok(PyBool(CmpTest(result.op, cmp(UtcPoint(lhs), UtcPoint(rhs)))))

\* The microsecond of a Time; a Time that was given none counts as having 0.
TimeMicro(t) == IF HasAttr(t, "_Time__microsecond") THEN t._Time__microsecond ELSE 0

TimeFields(t) == <<t._Time__hour, t._Time__minute, t._Time__second, TimeMicro(t)>>

\* (minutes since midnight less the offset, second, microsecond) of a Time
\* whose zone gives an offset.
TimeAdjusted(t) ==
    <<t._Time__hour * 60 + t._Time__minute - ZoneMinutes(ZoneOf(t)),
      t._Time__second, TimeMicro(t)>>

\* C14: two Times that have the same zone object compare by their (hour,
\* minute, second, microsecond); otherwise, when the zones of both give an
\* offset, they compare by (hour * 60 + minute - offset, second, microsecond),
\* and when the zone of exactly one gives an offset an ordering comparison
\* raises TypeError.
C14_TimeCompare ==
    /\ result.op \in ComparisonOps
    /\ lhs.type = "Time" /\ rhs.type = "Time"
    => IF ZoneOf(lhs) = ZoneOf(rhs)
       THEN result.ret
               = Ok(PyBool(CmpTest(result.op, cmp(TimeFields(lhs), TimeFields(rhs)))))
       ELSE IF ZoneResolves(ZoneOf(lhs)) /\ ZoneResolves(ZoneOf(rhs))
       THEN result.ret
               = Ok(PyBool(CmpTest(result.op,
                                   cmp(TimeAdjusted(lhs), TimeAdjusted(rhs)))))
       ELSE IF ZoneResolves(ZoneOf(lhs)) # ZoneResolves(ZoneOf(rhs))
       THEN result.op \in {"__lt__", "__le__", "__gt__", "__ge__"}
               => result.ret = Raise("TypeError")
       ELSE TRUE

\* C15: the hash of a Time agrees with ==: two Times that == finds equal have
\* hashes, and the same hash.
C15_TimeHash ==
    /\ result.op = "Time.__hash__"
    /\ Time_richcmp(lhs, rhs, "__eq__") = Ok(PyBool(TRUE))
    => /\ IsOk(result.ret)
       /\ IsOk(result.other)
       /\ result.ret = result.other

\* C16: asTimezone(zone) of a DateTime that has no zone, or whose zone gives
\* no offset, raises ValueError: it returns nothing and raises nothing else.
C16_RequiresAware ==
    /\ result.op = "asTimezone"
    /\ result.arg # None
    /\ \/ ZoneOf(lhs) = None
       \/ ZoneOf(lhs).utcoffset = None
    => result.ret = Raise("ValueError")

\* C17: zone.fromutc(dt) of a DateTime tagged with the zone raises ValueError,
\* and returns nothing, when utcoffset() or dst() of the zone gives None for
\* it.
C17_FromUtcInvalidZone ==
    /\ result.op = "fromutc"
    /\ ZoneOf(lhs) = result.arg
    /\ \/ result.arg.utcoffset = None
       \/ result.arg.dst = None
    => result.ret = Raise("ValueError")

\* The ordinal of a point is one of the years 1..9999.
PointInRange(p) == 1 <= p[1] /\ p[1] <= MaxOrdinal

\* C18: for the zone whose utcoffset() is TimeDelta(minutes=-300) and whose
\* dst() is TimeDelta(0), fromutc of a DateTime tagged with the zone is the
\* DateTime 300 minutes earlier, whenever that is in range, and
\* x.asTimezone(utc).asTimezone(zone) of a DateTime of the zone has the fields
\* and the zone of x.
C18_ZoneRoundTrip ==
    /\ result.op \in {"fromutc", "asTimezone.asTimezone"}
    /\ result.arg = ZoneFixed
    /\ ZoneOf(lhs) = ZoneFixed
    /\ PointInRange(PointPlus(InstantPoint(lhs), <<0, -300 * 60, 0>>))
    /\ PointInRange(PointPlus(InstantPoint(lhs), <<0, 300 * 60, 0>>))
    => /\ IsOk(result.ret)
       /\ result.ret.val.type = "DateTime"
       /\ ZoneOf(result.ret.val) = ZoneFixed
       /\ InstantPoint(result.ret.val)
              = IF result.op = "fromutc"
                THEN PointPlus(InstantPoint(lhs), <<0, -300 * 60, 0>>)
                ELSE InstantPoint(lhs)

\* C19: _check_utc_offset passes None through, turns a TimeDelta of a whole
\* number of minutes, fewer than 1440 either way, into that number of
\* minutes, and raises ValueError for every other TimeDelta: one with a
\* remainder of seconds, or of 1440 minutes or more either way.
C19_OffsetValidated ==
    result.op = "_check_utc_offset" =>
        IF args = <<>> THEN result.ret = Ok(None)
        ELSE LET total == args[1] * 86400 + args[2] + args[3] * 60 + args[4] * 3600
             IN  IF total % 60 = 0 /\ -1440 < total \div 60 /\ total \div 60 < 1440
                 THEN result.ret = Ok(PyInt(total \div 60))
                 ELSE result.ret = Raise("ValueError")

\* C20: the packed state takes a value back to itself: a Date and a DateTime
\* with fields in range have a state, of 4 and of 10 bytes, and the class
\* called with the state returns an object with the same fields and the same
\* zone.
C20_PickleRoundTrip ==
    /\ result.op = "Date.__reduce__" =>
           IsOk(result.ret) /\ Len(result.ret.val[1]) = 4
    /\ result.op = "Date(*state)" =>
           IsOk(result.ret) /\ DateYmd(result.ret.val) = DateYmd(date)
    /\ result.op = "DateTime.__reduce__" =>
           IsOk(result.ret) /\ Len(result.ret.val[1]) = 10
    /\ result.op = "DateTime(*state)" =>
           /\ IsOk(result.ret)
           /\ InstantPoint(result.ret.val) = InstantPoint(lhs)
           /\ ZoneOf(result.ret.val) = ZoneOf(lhs)

\* floor(total / k) of a span (days, seconds, microseconds) for k # 0, taken
\* field by field so that no intermediate value leaves the machine integers:
\* the remainder of each field is carried into the next smaller one.
SpanFloorDiv(span, k) ==
    LET sgn == IF k < 0 THEN -1 ELSE 1
        n   == sgn * k
        d   == sgn * span[1]
        s   == sgn * span[2]
        us  == sgn * span[3]
        s1  == (d % n) * 86400 + s
        us1 == (s1 % n) * 1000000 + us
    IN  Canonical(d \div n, s1 \div n, us1 \div n)

\* The exact (days, seconds, microseconds) of a TimeDelta operation on the
\* spans a and b (of the operands) and the integer k.
ExactSpan(opname, a, b, k) ==
    CASE opname = "TimeDelta.__add__" -> Canonical(a[1] + b[1], a[2] + b[2], a[3] + b[3])
      [] opname = "TimeDelta.__sub__" -> Canonical(a[1] - b[1], a[2] - b[2], a[3] - b[3])
      [] opname = "TimeDelta.__neg__" -> Canonical(-a[1], -a[2], -a[3])
      [] opname = "TimeDelta.__abs__" ->
             IF a[1] < 0 THEN Canonical(-a[1], -a[2], -a[3]) ELSE a
      [] opname = "TimeDelta.__mul__" -> Canonical(a[1] * k, a[2] * k, a[3] * k)
      [] opname = "TimeDelta.__div__" -> SpanFloorDiv(a, k)

\* The operands of the TimeDelta operation the result is of are those the
\* operation is defined for: a TimeDelta for + and -, an integer for * and //
\* (not 0 for //, and small enough for the product of the days to be taken).
ExactOperands ==
    /\ result.op \in {"TimeDelta.__add__", "TimeDelta.__sub__"} => rhs.type = "TimeDelta"
    /\ result.op = "TimeDelta.__mul__" =>
           /\ rhs.type = "int"
           /\ rhs.val # 0 => Abs(lhs._TimeDelta__days) <= 2 * (MaxTimeDeltaDays \div Abs(rhs.val))
    /\ result.op = "TimeDelta.__div__" => rhs.type = "int" /\ rhs.val # 0

\* C21: a + b, a - b, -a, abs(a), a * k and a // k (k # 0) of TimeDeltas
\* return the canonical TimeDelta of the exact sum, difference, negation,
\* absolute value, product and floor quotient of the operands' spans,
\* whenever that result is within 999999999 days either way.
C21_DurationExact ==
    /\ result.op \in {"TimeDelta.__add__", "TimeDelta.__sub__", "TimeDelta.__neg__",
                      "TimeDelta.__abs__", "TimeDelta.__mul__", "TimeDelta.__div__"}
    /\ ExactOperands
    => LET expected == ExactSpan(result.op, DurationSpan(lhs),
                                 IF rhs.type = "TimeDelta" THEN DurationSpan(rhs)
                                 ELSE <<0, 0, 0>>,
                                 IF rhs.type = "int" THEN rhs.val ELSE 1)
       IN  Abs(expected[1]) <= MaxTimeDeltaDays =>
               /\ IsOk(result.ret)
               /\ result.ret.val.type = "TimeDelta"
               /\ DurationSpan(result.ret.val) = expected
               /\ TimeDelta_microseconds(result.ret.val) = Ok(expected[3])

\* ----------------------------------------- the field validation specification

\* The (year, month, day) handed to _ymd2ord, to Date and to Date.replace: each
\* field at, inside and outside the ends of its range, with months of 28, 29,
\* 30 and 31 days.
FieldInputs ==
    {MINYEAR - 1, MINYEAR, 2023, 2024, MAXYEAR, MAXYEAR + 1}
        \X {0, 1, 2, 4, 12, 13}
        \X {0, 1, 28, 29, 30, 31, 32}

\* The Dates that replace() is called on.
ReplaceReceivers ==
    { Date_new(t[1], t[2], t[3]).val :
        t \in {<<MINYEAR, 1, 1>>, <<2023, 1, 31>>, <<2023, 4, 30>>,
               <<2024, 2, 29>>, <<MAXYEAR, 12, 31>>} }

InitFields ==
    /\ args \in FieldInputs
    /\ date \in ReplaceReceivers
    /\ ordinal = 1
    /\ lhs = None
    /\ rhs = None
    /\ result = NoCall

FieldsYmd2Ord ==
    /\ Ready
    /\ result' = [op |-> "_ymd2ord", ret |-> _ymd2ord(args[1], args[2], args[3])]
    /\ UNCHANGED inputs

FieldsDate ==
    /\ Ready
    /\ result' = [op |-> "Date", ret |-> Date_new(args[1], args[2], args[3])]
    /\ UNCHANGED inputs

\* date.replace() with the fields of given handed over and the others left out;
\* self is the receiver as it is after the call.
FieldsReplace ==
    /\ Ready
    /\ \E given \in SUBSET {1, 2, 3} :
           LET kw(i) == IF i \in given THEN PyInt(args[i]) ELSE None
           IN  result' = [op |-> "Date.replace", given |-> given, self |-> date,
                          ret |-> Date_replace(date, kw(1), kw(2), kw(3))]
    /\ UNCHANGED inputs

NextFields ==
    \/ FieldsYmd2Ord
    \/ FieldsDate
    \/ FieldsReplace

SpecFields == InitFields /\ [][NextFields]_vars

\* The length of a month by the Gregorian rule.
GregorianLeap(y) == y % 4 = 0 /\ (y % 100 # 0 \/ y % 400 = 0)

GregorianDays(y, m) ==
    IF m = 2 THEN (IF GregorianLeap(y) THEN 29 ELSE 28)
    ELSE IF m \in {4, 6, 9, 11} THEN 30 ELSE 31

GregorianYmd(t) ==
    /\ 1 <= t[2] /\ t[2] <= 12
    /\ 1 <= t[3] /\ t[3] <= GregorianDays(t[1], t[2])

\* The day after (y, m, d).
GregorianNext(t) ==
    IF t[3] < GregorianDays(t[1], t[2]) THEN <<t[1], t[2], t[3] + 1>>
    ELSE IF t[2] < 12 THEN <<t[1], t[2] + 1, 1>>
    ELSE <<t[1] + 1, 1, 1>>

\* The fields that replace() is to build its Date from.
ReplaceFields ==
    [i \in 1 .. 3 |-> IF i \in result.given THEN args[i] ELSE DateYmd(date)[i]]

\* C22: _ymd2ord(y, m, d) raises ValueError exactly when the month is outside
\* 1..12 or the day outside 1..(days of the month), and otherwise returns the
\* ordinal: 1 for 0001-01-01 and one more for each day after; Date(y, m, d)
\* and replace() raise ValueError exactly when, besides, the year is outside
\* 1..9999, and otherwise return the Date of exactly the fields asked for, so
\* that a day the new month or year has not makes replace() fail; the
\* receiver of replace() is as it was.
C22_FieldValidation ==
    /\ result.op = "_ymd2ord" =>
           IF GregorianYmd(args)
           THEN /\ IsOk(result.ret)
                /\ args = <<1, 1, 1>> => result.ret.val = 1
                /\ _ymd2ord(GregorianNext(args)[1], GregorianNext(args)[2],
                            GregorianNext(args)[3]) = Ok(result.ret.val + 1)
           ELSE result.ret = Raise("ValueError")
    /\ result.op = "Date" =>
           IF GregorianYmd(args) /\ args[1] \in MINYEAR .. MAXYEAR
           THEN /\ IsOk(result.ret)
                /\ result.ret.val.type = "Date"
                /\ DateYmd(result.ret.val) = args
           ELSE result.ret = Raise("ValueError")
    /\ result.op = "Date.replace" =>
           /\ IF GregorianYmd(ReplaceFields) /\ ReplaceFields[1] \in MINYEAR .. MAXYEAR
              THEN /\ IsOk(result.ret)
                   /\ result.ret.val.type = "Date"
                   /\ DateYmd(result.ret.val) = ReplaceFields
              ELSE result.ret = Raise("ValueError")
           /\ result.self = date

\* replace(year=2023) on 2024-02-29 and replace(month=4) on 2023-01-31 were
\* made and raised ValueError.
C22_Witness ==
    /\ result.op = "Date.replace"
    /\ result.ret = Raise("ValueError")
    /\ \/ DateYmd(date) = <<2024, 2, 29>> /\ result.given = {1} /\ args[1] = 2023
       \/ DateYmd(date) = <<2023, 1, 31>> /\ result.given = {2} /\ args[2] = 4

\* ------------------------------------------------- the daylight time specification

\* US Eastern in 2000: five hours west, daylight time from 2:00 on April 2 up
\* to 1:00 (the hour that is repeated) on October 29.
ZoneEastern == TzInfoDst(5, -300, 60, <<2000, 4, 2, 2, 0>>, <<2000, 10, 29, 1, 0>>)

\* A zone on UTC in winter: daylight time from 1:00 on March 26 up to 1:00 on
\* October 29.
ZoneWestern == TzInfoDst(6, 0, 60, <<2000, 3, 26, 1, 0>>, <<2000, 10, 29, 1, 0>>)

DstZones == {ZoneEastern, ZoneWestern}

\* The hours of the day, 0 up to this one, of the DateTimes handed to fromutc.
MaxZoneHour == 8

\* (year, month, day, hour, minute, second) of the DateTimes handed to
\* fromutc: the first and last minute of the early hours of the days on which
\* daylight time starts and ends, of a day in winter and of one in summer.
ZoneInstantFields ==
    { <<2000, md[1], md[2], h, mi, 0>> :
        md \in {<<1, 1>>, <<3, 26>>, <<4, 2>>, <<7, 1>>, <<10, 29>>},
        h \in 0 .. MaxZoneHour, mi \in {0, 59} }

InitZone ==
    /\ rhs \in DstZones
    /\ \E f \in ZoneInstantFields :
           lhs \in {DateTime_new(f[1], f[2], f[3], f[4], f[5], f[6], rhs).val,
                    DateTime_new_state(<<f[1] \div 256, f[1] % 256, f[2], f[3],
                                         f[4], f[5], f[6], 0, 0, 0>>, rhs).val}
    /\ args = <<>>
    /\ ordinal = 1
    /\ date = Date_new(MINYEAR, 1, 1).val
    /\ result = NoCall

\* rhs.fromutc(lhs)
ZoneFromUtc ==
    /\ Ready
    /\ result' = [op |-> "fromutc", arg |-> rhs, ret |-> TzInfo_fromutc(rhs, lhs)]
    /\ UNCHANGED inputs

\* lhs.utcoffset()
ZoneUtcOffset ==
    /\ Ready
    /\ result' = [op |-> "utcoffset", ret |-> DateTime_utcoffset(lhs)]
    /\ UNCHANGED inputs

\* lhs.dst()
ZoneDstOffset ==
    /\ Ready
    /\ result' = [op |-> "dst", ret |-> DateTime_dst(lhs)]
    /\ UNCHANGED inputs

NextZone ==
    \/ ZoneFromUtc
    \/ ZoneUtcOffset
    \/ ZoneDstOffset

SpecZone == InitZone /\ [][NextZone]_vars

\* The (year, month, day, hour, minute) of a point.
PointWall(p) ==
    _ord2ymd(p[1]).val \o <<p[2] \div 3600, (p[2] \div 60) % 60>>

\* The minutes that dst() and utcoffset() of a zone with daylight time are to
\* give for the wall time of the point p.
DstMinutes(tz, p) ==
    IF cmp(tz.start, PointWall(p)) <= 0 /\ cmp(PointWall(p), tz.end) < 0
    THEN tz.save ELSE 0

OffsetMinutes(tz, p) == tz.std + DstMinutes(tz, p)

\* The point p moved by a number of minutes.
PointShift(p, minutes) == PointPlus(p, <<0, minutes * 60, 0>>)

\* The two steps of fromutc on the point x: the shift by the standard offset
\* s = utcoffset - dst asked at x, then the shift by dst, asked again after
\* the first shift when there was one.
TwoStep(tz, x) ==
    LET s  == OffsetMinutes(tz, x) - DstMinutes(tz, x)
        y1 == IF s # 0 THEN PointShift(x, s) ELSE x
        d  == IF s # 0 THEN DstMinutes(tz, y1) ELSE DstMinutes(tz, x)
    IN  IF d # 0 THEN PointShift(y1, d) ELSE y1

\* C23: zone.fromutc(x) of a DateTime tagged with the zone returns the
\* DateTime of the zone whose fields are those of x moved by
\* s = utcoffset(x) - dst(x) and then by d, the dst() asked again after the
\* first move when s is not zero and dst(x) when it is; nothing is added when
\* d is zero.
C23_FromUtcTwoStep ==
    result.op = "fromutc" /\ ZoneOf(lhs) = result.arg =>
        /\ IsOk(result.ret)
        /\ result.ret.val.type = "DateTime"
        /\ ZoneOf(result.ret.val) = result.arg
        /\ InstantPoint(result.ret.val) = TwoStep(result.arg, InstantPoint(lhs))

\* The point x of UTC is in the hour that has no spelling in the zone: in
\* standard time it reads as a wall time that the zone takes as daylight time,
\* and in daylight time as one that the zone takes as standard time.
Unspellable(tz, x) ==
    /\ DstMinutes(tz, PointShift(x, tz.std)) # 0
    /\ DstMinutes(tz, PointShift(x, tz.std + tz.save)) = 0

\* C24: for a zone whose standard offset is fixed and whose dst() is 0 or one
\* other value by the wall time, zone.fromutc(x) returns a DateTime y of the
\* zone that denotes the point x of UTC (the fields of y less utcoffset(y)
\* are the fields of x), except when x is in the hour with no spelling at the
\* end of daylight time: then y is the wall time of the repeated hour, the one
\* that the UTC hour after x maps to as well.
C24_FromUtcEquivalent ==
    result.op = "fromutc" /\ ZoneOf(lhs) = result.arg /\ HasAttr(result.arg, "rule") =>
        /\ IsOk(result.ret)
        /\ result.ret.val.type = "DateTime"
        /\ ZoneOf(result.ret.val) = result.arg
        /\ LET x == InstantPoint(lhs)
               y == InstantPoint(result.ret.val)
           IN  IF Unspellable(result.arg, x)
               THEN /\ y = PointShift(x, result.arg.std + result.arg.save)
                    /\ y = TwoStep(result.arg, PointShift(x, result.arg.save))
               ELSE PointShift(y, -OffsetMinutes(result.arg, y)) = x

\* What tmxxx is to make of its arguments a: the month brought into 1..12 by
\* divmod(month - 1, 12), the time of day and the days carried out of it taken
\* from the sum of the time fields by floor division.
NormalReference(a) ==
    LET year   == a[1] + ((a[2] - 1) \div 12)
        month  == ((a[2] - 1) % 12) + 1
        total  == a[4] * 3600 + a[5] * 60 + a[6] + (a[7] \div 1000000)
    IN  [ordinal     |-> _ymd2ord(year, month, 1).val + a[3] - 1 + (total \div 86400),
         second      |-> total % 86400,
         microsecond |-> a[7] % 1000000]

\* C25: for every tuple of integer fields, tmxxx returns fields in their
\* ranges (microsecond 0..999999, second and minute 0..59, hour 0..23, month
\* 1..12, day 1..days of the month) that denote the same instant: the day
\* number of the date is that of day 1 of the month asked for, plus day - 1,
\* plus the days carried out of the time fields, and the time of day is what
\* the carry left; the one-day shortcuts give the date that the day number
\* gives.
C25_NormalizePreserves ==
    result.op = "tmxxx" =>
        /\ IsOk(result.ret)
        /\ LET t   == result.ret.val
               ref == NormalReference(args)
           IN  /\ t.microsecond \in 0 .. 999999
               /\ t.second \in 0 .. 59
               /\ t.minute \in 0 .. 59
               /\ t.hour \in 0 .. 23
               /\ t.month \in 1 .. 12
               /\ t.day \in 1 .. GregorianDays(t.year, t.month)
               /\ _ymd2ord(t.year, t.month, t.day) = Ok(ref.ordinal)
               /\ _ord2ymd(ref.ordinal) = Ok(<<t.year, t.month, t.day>>)
               /\ t.hour * 3600 + t.minute * 60 + t.second = ref.second
               /\ t.microsecond = ref.microsecond

\* An hour before the start of 2024 was asked for as hour -1 of January 1: the
\* day became 0 and was borrowed from the December before.
C25_Witness ==
    /\ result.op = "tmxxx"
    /\ args = <<2024, 1, 1, -1, 0, 0, 0>>
    /\ TmFields(result.ret.val) = <<2023, 12, 31, 23, 0, 0, 0>>
    /\ result.ret.val.ordinal = <<>>

\* The result is of x + d or x - d, x the DateTime lhs and d the TimeDelta
\* rhs, and the DateTime asked for is of the years 1..9999.
ShiftInRange ==
    /\ result.op \in {"DateTime.__add__", "DateTime.__sub__"}
    /\ rhs.type = "TimeDelta"
    /\ PointInRange(PointPlus(InstantPoint(lhs),
                              IF result.op = "DateTime.__add__"
                              THEN DurationSpan(rhs)
                              ELSE <<-DurationSpan(rhs)[1], -DurationSpan(rhs)[2],
                                     -DurationSpan(rhs)[3]>>))

\* C26: no operation changes an operand or a zone object; a DateTime plus or
\* minus a TimeDelta is a DateTime with the zone object of the receiver, and
\* asTimezone with the receiver's own zone returns the receiver as it is.
C26_Immutable ==
    /\ [][lhs' = lhs /\ rhs' = rhs /\ date' = date]_vars
    /\ [](/\ ShiftInRange =>
                /\ IsOk(result.ret)
                /\ result.ret.val.type = "DateTime"
                /\ ZoneOf(result.ret.val) = ZoneOf(lhs)
          /\ result.op = "asTimezone" /\ result.arg # None
                                      /\ result.arg = ZoneOf(lhs) =>
                result.ret = Ok(lhs))

\* C27: addition and subtraction of DateTimes undo each other: for a DateTime
\* x and a TimeDelta d with x + d in range, (x + d) - x is d and (x + d) - d
\* is x; for DateTimes a and b of the same zone object, b + (a - b) is a and
\* a - b is -(b - a).
C27_AddSubInverse ==
    /\ /\ result.op \in {"(x + d) - x", "(x + d) - d"}
       /\ PointInRange(PointPlus(InstantPoint(lhs), DurationSpan(rhs)))
       => /\ IsOk(result.ret)
          /\ result.op = "(x + d) - x" =>
                 /\ result.ret.val.type = "TimeDelta"
                 /\ DurationSpan(result.ret.val) = DurationSpan(rhs)
          /\ result.op = "(x + d) - d" =>
                 /\ result.ret.val.type = "DateTime"
                 /\ InstantPoint(result.ret.val) = InstantPoint(lhs)
                 /\ ZoneOf(result.ret.val) = ZoneOf(lhs)
    /\ /\ result.op \in {"b + (a - b)", "-(b - a)"}
       /\ ZoneOf(lhs) = ZoneOf(rhs)
       => /\ IsOk(result.ret)
          /\ result.op = "b + (a - b)" =>
                 /\ result.ret.val.type = "DateTime"
                 /\ InstantPoint(result.ret.val) = InstantPoint(lhs)
                 /\ ZoneOf(result.ret.val) = ZoneOf(lhs)
          /\ result.op = "-(b - a)" =>
                 /\ IsOk(result.arg)
                 /\ result.ret.val.type = "TimeDelta"
                 /\ DurationSpan(result.ret.val) = DurationSpan(result.arg.val)

\* C28: a Date a minus a TimeDelta d is the Date d.days days earlier (the
\* seconds and microseconds of d play no part), or an OverflowError when that
\* day is outside the years 1..9999; (a + d) - d is a whenever a + d is a
\* Date; and a - d is the same as a + (-d) for a d without seconds and
\* microseconds.
C28_DateSub ==
    /\ result.op = "Date.__sub__" =>
           LET o      == Date_toordinal(date).val - result.arg._TimeDelta__days
               target == _ord2ymd(o).val
           IN  IF MINYEAR <= target[1] /\ target[1] <= MAXYEAR
               THEN /\ IsOk(result.ret)
                    /\ result.ret.val.type = "Date"
                    /\ ValidYmd(DateYmd(result.ret.val))
                    /\ Date_toordinal(result.ret.val) = Ok(o)
               ELSE result.ret = Raise("OverflowError")
    /\ result.op = "(a + d) - d" /\ IsOk(Date___add__(date, result.arg)) =>
           result.ret = Ok(date)
    /\ /\ result.op = "a + (-d)"
       /\ DurationSpan(result.arg)[2] = 0
       /\ DurationSpan(result.arg)[3] = 0
       => result.ret = result.sub

\* C29: the hash of a DateTime agrees with ==: two DateTimes that == finds
\* equal have hashes, and the same hash; the hash of a DateTime whose zone
\* gives an offset is that of (ordinal, hour * 3600 + (minute - offset) * 60
\* + second, microsecond) in canonical form.
C29_InstantHash ==
    result.op = "DateTime.__hash__" =>
        /\ PyRichCompare(lhs, rhs, "__eq__") = {Ok(PyBool(TRUE))} =>
               /\ IsOk(result.ret)
               /\ IsOk(result.other)
               /\ result.ret = result.other
        /\ ZoneResolves(ZoneOf(lhs)) =>
               result.ret
                   = Ok(HashOf("tuple",
                               Canonical(InstantPoint(lhs)[1],
                                         InstantPoint(lhs)[2]
                                             - ZoneMinutes(ZoneOf(lhs)) * 60,
                                         InstantPoint(lhs)[3])))

\* ------------------------------------------------- the day number specification

\* The 400-year cycles whose every day number is handed to _ord2ymd.
MaxCycles == 1

\* The day numbers handed to _ord2ymd: every day of the first cycles and the
\* first days of the next, and the last days of the year 9999.  The offset
\* within the 400-year cycle is all that the assertions depend on.
CycleOrdinals ==
    (1 .. MaxCycles * _DI400Y + OrdSpan) \cup (MaxOrdinal - OrdSpan .. MaxOrdinal)

InitOrdinal ==
    /\ ordinal \in CycleOrdinals
    /\ date = Date_new(MINYEAR, 1, 1).val
    /\ args = <<>>
    /\ lhs = None
    /\ rhs = None
    /\ result = NoCall

\* _ord2ymd(ordinal), with the counts of its divmod chain.
OrdinalToYmd ==
    /\ Ready
    /\ result' = [op |-> "_ord2ymd", divmod |-> _ord2ymd_divmod(ordinal),
                  ret |-> _ord2ymd(ordinal)]
    /\ UNCHANGED inputs

NextOrdinal == OrdinalToYmd

SpecOrdinal == InitOrdinal /\ [][NextOrdinal]_vars

\* The days of the year y before month m, by the Gregorian rule.
RECURSIVE GregorianBefore(_, _)
GregorianBefore(y, m) ==
    IF m = 1 THEN 0 ELSE GregorianBefore(y, m - 1) + GregorianDays(y, m - 1)

\* The month of the day at offset n from January 1 of the year y.
GregorianMonth(y, n) ==
    CHOOSE m \in 1 .. 12 :
        /\ GregorianBefore(y, m) <= n
        /\ n < GregorianBefore(y, m) + GregorianDays(y, m)

\* C30: the assertions of _ord2ymd hold for the day numbers 1..3652059: when
\* the count of 1-year or of 100-year cycles is 4 the offset left is 0 and the
\* day is December 31 of the year before; otherwise the leap flag made of the
\* counts is that of the year, the month estimate (n + 50) >> 5 is the month
\* or one more, and the day offset within the month is from 0 up to, not
\* including, the length of the month.
C30_Ord2YmdAsserts ==
    result.op = "_ord2ymd" =>
        LET c == result.divmod
        IN  /\ IsOk(result.ret)
            /\ c.n \in 0 .. 365
            /\ IF c.n1 = 4 \/ c.n100 = 4
               THEN /\ c.n = 0
                    /\ result.ret.val = <<c.year - 1, 12, 31>>
               ELSE /\ _ord2ymd_leapyear(c) = GregorianLeap(c.year)
                    /\ c.n < (IF GregorianLeap(c.year) THEN 366 ELSE 365)
                    /\ (c.n + 50) \div 32 - GregorianMonth(c.year, c.n) \in {0, 1}
                    /\ result.ret.val[1] = c.year
                    /\ result.ret.val[2] = GregorianMonth(c.year, c.n)
                    /\ result.ret.val[3] - 1 = c.n - GregorianBefore(c.year, result.ret.val[2])
                    /\ result.ret.val[3] - 1 \in 0 .. GregorianDays(c.year, result.ret.val[2]) - 1

\* The last day of the year 4 was asked for: the count of 1-year cycles was 4
\* and the offset left 0.
C30_Witness ==
    /\ result.op = "_ord2ymd"
    /\ ordinal = _DI4Y
    /\ result.divmod.n1 = 4
    /\ result.divmod.n = 0
    /\ result.ret = Ok(<<4, 12, 31>>)

====
